---------------------------- MODULE Spec2Model ----------------------------
(***************************************************************************)
(* Model of the pi-natives terminal text engine (text.rs) and key decoder  *)
(* (keys.rs).  Text is a sequence of UTF-16 code units (naturals), input   *)
(* bytes and key ids are sequences of byte values.  Positions are 1-based  *)
(* here and 0-based in the source.  Every public function is one action   *)
(* applied to a call drawn by the initial predicate of its specification.  *)
(***************************************************************************)
EXTENDS Integers, Sequences, FiniteSets, TLC

VARIABLES
    pc,     \* "ready": call not yet made; "done": returned; "break_long_word": inside that loop
    call,   \* the function called and its arguments
    ret,    \* the value returned
    loop    \* the locals of break_long_word while the call is inside its loop

vars == <<pc, call, ret, loop>>

(***************************************************************************)
(* Bounds of the model.                                                    *)
(***************************************************************************)
MaxPieces == 4
MaxWidth == 3
MaxCol == 2

(***************************************************************************)
(* Generic helpers.                                                        *)
(***************************************************************************)
None == -1

Min(a, b) == IF a < b THEN a ELSE b

Max(a, b) == IF a > b THEN a ELSE b

HasBit(x, bit) == (x \div bit) % 2 = 1

SetBit(x, bit) == IF HasBit(x, bit) THEN x ELSE x + bit

ClearBit(x, bit) == IF HasBit(x, bit) THEN x - bit ELSE x

RECURSIVE Flatten(_)
Flatten(ss) == IF ss = <<>> THEN <<>> ELSE Head(ss) \o Flatten(Tail(ss))

RECURSIVE Spaces(_)
Spaces(n) == IF n <= 0 THEN <<>> ELSE <<32>> \o Spaces(n - 1)

IsPrefix(p, s) == Len(p) <= Len(s) /\ SubSeq(s, 1, Len(p)) = p

IsSuffix(p, s) == Len(p) <= Len(s) /\ SubSeq(s, Len(s) - Len(p) + 1, Len(s)) = p

\* All sequences of at most n elements of S.
RECURSIVE SeqsUpTo(_, _)
SeqsUpTo(S, n) ==
    IF n = 0 THEN {<<>>}
    ELSE LET shorter == SeqsUpTo(S, n - 1)
         IN  shorter \cup {Append(s, x) : s \in {t \in shorter : Len(t) = n - 1}, x \in S}

(***************************************************************************)
(* Constants of text.rs.                                                   *)
(***************************************************************************)
DEFAULT_TAB_WIDTH == 3
MIN_TAB_WIDTH == 1
MAX_TAB_WIDTH == 16
ESC == 27

ATTR_BOLD == 1
ATTR_DIM == 2
ATTR_ITALIC == 4
ATTR_UNDERLINE == 8
ATTR_BLINK == 16
ATTR_INVERSE == 64
ATTR_HIDDEN == 128
ATTR_STRIKE == 256
COLOR_NONE == 0

\* usize::MAX, the limit visible_width_u16 passes; the widths of the model stay far below it.
USIZE_MAX == 2147483647

clamp_tab_width(tab_width) ==
    LET width == IF tab_width = None THEN DEFAULT_TAB_WIDTH ELSE tab_width
    IN  IF width < MIN_TAB_WIDTH THEN MIN_TAB_WIDTH
        ELSE IF width > MAX_TAB_WIDTH THEN MAX_TAB_WIDTH
        ELSE width

RECURSIVE build_utf16_string(_)
build_utf16_string(data) ==
    IF data # <<>> /\ data[Len(data)] = 0
    THEN build_utf16_string(SubSeq(data, 1, Len(data) - 1))
    ELSE data

(***************************************************************************)
(* AnsiState: attrs bitset, fg and bg colour values.                       *)
(***************************************************************************)
AnsiState_new == [attrs |-> 0, fg |-> COLOR_NONE, bg |-> COLOR_NONE]

is_empty(state) == state.attrs = 0 /\ state.fg = COLOR_NONE /\ state.bg = COLOR_NONE

RECURSIVE SkipSemicolons(_, _)
SkipSemicolons(params, i) ==
    IF i <= Len(params) /\ params[i] = 59 THEN SkipSemicolons(params, i + 1) ELSE i

RECURSIVE ParseSgrDigits(_, _, _)
ParseSgrDigits(params, i, val) ==
    IF i > Len(params) THEN [val |-> val, next |-> i]
    ELSE IF params[i] = 59 THEN [val |-> val, next |-> i + 1]
    ELSE ParseSgrDigits(params, i + 1,
                        IF params[i] \in 48..57 THEN val * 10 + (params[i] - 48) ELSE val)

\* (value, next index); the parameter lists of the model are too short to saturate a u32.
parse_sgr_num_u16(params, i) == ParseSgrDigits(params, SkipSemicolons(params, i), 0)

\* Every extended colour read as an indexed one: the mode and one parameter.
ExtendedColorIndexed(params, i) ==
    LET mode == parse_sgr_num_u16(params, i)
    IN  IF mode.val \in {5, 2} THEN
            LET idx == parse_sgr_num_u16(params, mode.next)
            IN  [set |-> TRUE, color |-> 256 + (idx.val % 256), next |-> idx.next]
        ELSE [set |-> FALSE, color |-> COLOR_NONE, next |-> mode.next]

ExtendedColor(params, i) ==
    LET mode == parse_sgr_num_u16(params, i)
    IN  IF mode.val = 5 THEN
            LET idx == parse_sgr_num_u16(params, mode.next)
            IN  [set |-> TRUE, color |-> 256 + (idx.val % 256), next |-> idx.next]
        ELSE IF mode.val = 2 THEN
            LET r == parse_sgr_num_u16(params, mode.next)
                g == parse_sgr_num_u16(params, r.next)
                b == parse_sgr_num_u16(params, g.next)
            IN  [set |-> TRUE,
                 color |-> 16777216 + (r.val % 256) * 65536 + (g.val % 256) * 256 + (b.val % 256),
                 next |-> b.next]
        ELSE [set |-> FALSE, color |-> COLOR_NONE, next |-> mode.next]

\* AnsiState::reset with the attributes alone.
ResetAttrs(state) == [state EXCEPT !.attrs = 0]

\* AnsiState::reset
reset(state) == AnsiState_new

\* The colour codes, 39 and 49 clearing both colours.
ApplySgrColorBoth(state, code) ==
    CASE code \in 30..37 -> [state EXCEPT !.fg = code - 29]
      [] code \in {39, 49} -> [state EXCEPT !.fg = COLOR_NONE, !.bg = COLOR_NONE]
      [] code \in 40..47 -> [state EXCEPT !.bg = code - 39]
      [] code \in 90..97 -> [state EXCEPT !.fg = code - 81]
      [] code \in 100..107 -> [state EXCEPT !.bg = code - 91]
      [] OTHER -> state

\* The colour codes of the match; any other code leaves the state as it is.
ApplySgrColor(state, code) ==
    CASE code \in 30..37 -> [state EXCEPT !.fg = code - 29]
      [] code = 39 -> [state EXCEPT !.fg = COLOR_NONE]
      [] code \in 40..47 -> [state EXCEPT !.bg = code - 39]
      [] code = 49 -> [state EXCEPT !.bg = COLOR_NONE]
      [] code \in 90..97 -> [state EXCEPT !.fg = code - 81]
      [] code \in 100..107 -> [state EXCEPT !.bg = code - 91]
      [] OTHER -> state

ApplySgrCode(state, code) ==
    CASE code = 0 -> reset(state)
      [] code = 1 -> [state EXCEPT !.attrs = SetBit(@, ATTR_BOLD)]
      [] code = 2 -> [state EXCEPT !.attrs = SetBit(@, ATTR_DIM)]
      [] code = 3 -> [state EXCEPT !.attrs = SetBit(@, ATTR_ITALIC)]
      [] code = 4 -> [state EXCEPT !.attrs = SetBit(@, ATTR_UNDERLINE)]
      [] code = 5 -> [state EXCEPT !.attrs = SetBit(@, ATTR_BLINK)]
      [] code = 7 -> [state EXCEPT !.attrs = SetBit(@, ATTR_INVERSE)]
      [] code = 8 -> [state EXCEPT !.attrs = SetBit(@, ATTR_HIDDEN)]
      [] code = 9 -> [state EXCEPT !.attrs = SetBit(@, ATTR_STRIKE)]
      [] code = 21 -> [state EXCEPT !.attrs = ClearBit(@, ATTR_BOLD)]
      [] code = 22 -> [state EXCEPT !.attrs = ClearBit(ClearBit(@, ATTR_BOLD), ATTR_DIM)]
      [] code = 23 -> [state EXCEPT !.attrs = ClearBit(@, ATTR_ITALIC)]
      [] code = 24 -> [state EXCEPT !.attrs = ClearBit(@, ATTR_UNDERLINE)]
      [] code = 25 -> [state EXCEPT !.attrs = ClearBit(@, ATTR_BLINK)]
      [] code = 27 -> [state EXCEPT !.attrs = ClearBit(@, ATTR_INVERSE)]
      [] code = 28 -> [state EXCEPT !.attrs = ClearBit(@, ATTR_HIDDEN)]
      [] code = 29 -> [state EXCEPT !.attrs = ClearBit(@, ATTR_STRIKE)]
      [] OTHER -> ApplySgrColor(state, code)

RECURSIVE ApplySgrLoop(_, _, _)
ApplySgrLoop(state, params, i) ==
    IF i > Len(params) THEN state
    ELSE LET num == parse_sgr_num_u16(params, i)
         IN  IF num.val \in {38, 48} THEN
                 LET ext == ExtendedColor(params, num.next)
                     st2 == IF ~ext.set THEN state
                            ELSE IF num.val = 38 THEN [state EXCEPT !.fg = ext.color]
                            ELSE [state EXCEPT !.bg = ext.color]
                 IN  ApplySgrLoop(st2, params, ext.next)
             ELSE ApplySgrLoop(ApplySgrCode(state, num.val), params, num.next)

apply_sgr_u16(state, params) ==
    IF params = <<>> THEN reset(state) ELSE ApplySgrLoop(state, params, 1)

RECURSIVE write_u32_u16(_)
write_u32_u16(val) ==
    IF val < 10 THEN <<48 + val>> ELSE Append(write_u32_u16(val \div 10), 48 + (val % 10))

\* Every colour written as an indexed one.
WriteColorIndexed(color, base) ==
    IF color = COLOR_NONE THEN <<>>
    ELSE write_u32_u16(base) \o <<59, 53, 59>> \o write_u32_u16(color % 256)

\* The codes of one colour, without separator; <<>> when the colour is unset.
write_color_u16(color, base) ==
    IF color = COLOR_NONE THEN <<>>
    ELSE IF color < 256 THEN
        LET code == IF color <= 8 THEN color + 29 ELSE color + 81
        IN  write_u32_u16(IF base = 48 THEN code + 10 ELSE code)
    ELSE IF color < 16777216 THEN
        write_u32_u16(base) \o <<59, 53, 59>> \o write_u32_u16(color % 256)
    ELSE
        write_u32_u16(base) \o <<59, 50, 59>> \o write_u32_u16((color \div 65536) % 256)
            \o <<59>> \o write_u32_u16((color \div 256) % 256)
            \o <<59>> \o write_u32_u16(color % 256)

RECURSIVE JoinCodes(_)
JoinCodes(codes) ==
    IF codes = <<>> THEN <<>>
    ELSE IF Len(codes) = 1 THEN codes[1]
    ELSE codes[1] \o <<59>> \o JoinCodes(Tail(codes))

write_restore_u16(state) ==
    IF is_empty(state) THEN <<>>
    ELSE LET attr(bit, code) == IF HasBit(state.attrs, bit) THEN <<write_u32_u16(code)>> ELSE <<>>
             col(c, base) == IF c = COLOR_NONE THEN <<>> ELSE <<write_color_u16(c, base)>>
             codes == attr(ATTR_BOLD, 1) \o attr(ATTR_DIM, 2) \o attr(ATTR_ITALIC, 3)
                      \o attr(ATTR_UNDERLINE, 4) \o attr(ATTR_BLINK, 5) \o attr(ATTR_INVERSE, 7)
                      \o attr(ATTR_HIDDEN, 8) \o attr(ATTR_STRIKE, 9)
                      \o col(state.fg, 38) \o col(state.bg, 48)
         IN  <<ESC, 91>> \o JoinCodes(codes) \o <<109>>

(***************************************************************************)
(* ANSI sequence detection.  0 stands for None.                            *)
(***************************************************************************)
\* The least index k >= from with data[k] in S, or 0.
FirstIn(data, from, S) ==
    LET hits == {k \in from..Len(data) : data[k] \in S}
    IN  IF hits = {} THEN 0 ELSE CHOOSE k \in hits : \A j \in hits : k <= j

\* The least index k >= from with data[k] = ESC, or 0.
FirstEsc(data, from) ==
    LET hits == {k \in from..Len(data) : data[k] = ESC}
    IN  IF hits = {} THEN 0 ELSE CHOOSE k \in hits : \A j \in hits : k <= j

\* The least index k >= from with data[k] = ESC and data[k+1] = '\', or 0.
FirstST(data, from) ==
    LET hits == {k \in from..(Len(data) - 1) : data[k] = ESC /\ data[k + 1] = 92}
    IN  IF hits = {} THEN 0 ELSE CHOOSE k \in hits : \A j \in hits : k <= j

ansi_seq_len_u16(data, pos) ==
    IF pos > Len(data) \/ data[pos] # ESC THEN 0
    ELSE IF pos + 1 > Len(data) THEN 0
    ELSE LET c == data[pos + 1]
         IN  IF c = 91 THEN
                 LET k == FirstIn(data, pos + 2, 64..126) IN IF k = 0 THEN 0 ELSE k - pos + 1
             ELSE IF c = 93 THEN
                 LET bel == FirstIn(data, pos + 2, {7})
                     st == FirstST(data, pos + 2)
                 IN  IF bel = 0 /\ st = 0 THEN 0
                     ELSE IF st = 0 \/ (bel # 0 /\ bel < st) THEN bel - pos + 1
                     ELSE st - pos + 2
             ELSE IF c \in {80, 88, 94, 95} THEN
                 LET st == FirstST(data, pos + 2) IN IF st = 0 THEN 0 ELSE st - pos + 2
             ELSE IF c \in 32..47 THEN
                 LET k == FirstIn(data, pos + 2, 48..126) IN IF k = 0 THEN 0 ELSE k - pos + 1
             ELSE IF c \in 64..126 THEN 2
             ELSE 0

is_sgr_u16(seq) == Len(seq) >= 3 /\ seq[2] = 91 /\ seq[Len(seq)] = 109

(***************************************************************************)
(* Grapheme / width.                                                       *)
(***************************************************************************)
ascii_cell_width_u16(u, tab_width) ==
    LET b == u % 256
    IN  IF b = 9 THEN tab_width ELSE IF b \in 32..126 THEN 1 ELSE 0

\* UnicodeWidthChar::width(c).unwrap_or(0) for the characters of the model:
\* controls have no width, combining marks 0, CJK ideographs 2, the rest 1.
UnicodeWidthChar(c) ==
    IF c < 32 \/ c \in 127..159 THEN 0
    ELSE IF c \in 768..879 THEN 0
    ELSE IF c \in 19968..40959 THEN 2
    ELSE 1

RECURSIVE UnicodeWidthStr(_)
UnicodeWidthStr(g) == IF g = <<>> THEN 0 ELSE UnicodeWidthChar(Head(g)) + UnicodeWidthStr(Tail(g))

grapheme_width_str(g, tab_width) ==
    IF g = <<9>> THEN tab_width
    ELSE IF g = <<>> THEN 0
    ELSE IF Len(g) = 1 THEN UnicodeWidthChar(g[1])
    ELSE UnicodeWidthStr(g)

\* Extended grapheme clusters of the characters of the model: a combining mark
\* (Extend) joins the non-control character before it, every other character starts
\* a cluster.  The number of units of the cluster that starts at k.
RECURSIVE ClusterLen(_, _)
ClusterLen(segment, k) ==
    IF k + 1 <= Len(segment) /\ segment[k + 1] \in 768..879
    THEN 1 + ClusterLen(segment, k + 1)
    ELSE 1

RECURSIVE GraphemesFrom(_, _, _)
GraphemesFrom(segment, k, tab_width) ==
    IF k > Len(segment) THEN <<>>
    ELSE LET isControl == segment[k] < 32 \/ segment[k] \in 127..159
             n == IF isControl THEN 1 ELSE ClusterLen(segment, k)
             g == SubSeq(segment, k, k + n - 1)
         IN  <<[units |-> g, w |-> grapheme_width_str(g, tab_width)]>>
                 \o GraphemesFrom(segment, k + n, tab_width)

\* The (utf16 slice, width) pairs the callback of for_each_grapheme_u16_slow receives, in order.
for_each_grapheme_u16_slow(segment, tab_width) == GraphemesFrom(segment, 1, tab_width)

\* The (unit, width) pairs of the ASCII fast path.
AsciiCells(seg, tab_width) ==
    [k \in 1..Len(seg) |-> [units |-> <<seg[k]>>, w |-> ascii_cell_width_u16(seg[k], tab_width)]]

\* End of the plain run that starts at i: the index of the next ESC, or Len + 1.
SegEnd(data, i) ==
    LET k == FirstIn(data, i, {ESC}) IN IF k = 0 THEN Len(data) + 1 ELSE k

IsAsciiSeg(seg) == \A k \in 1..Len(seg) : seg[k] <= 127

\* Adds the widths of cells from k on, stopping at the first sum above limit.
RECURSIVE WidthFold(_, _, _, _)
WidthFold(cells, k, width, limit) ==
    IF k > Len(cells) THEN [width |-> width, exceeded |-> FALSE]
    ELSE LET w2 == width + cells[k].w
         IN  IF w2 > limit THEN [width |-> w2, exceeded |-> TRUE]
             ELSE WidthFold(cells, k + 1, w2, limit)

RECURSIVE VisibleWidthLoop(_, _, _, _, _)
VisibleWidthLoop(data, i, width, limit, tab_width) ==
    IF i > Len(data) THEN [width |-> width, exceeded |-> width > limit]
    ELSE IF data[i] = ESC THEN
        LET seq_len == ansi_seq_len_u16(data, i)
        IN  VisibleWidthLoop(data, IF seq_len > 0 THEN i + seq_len ELSE i + 1,
                             width, limit, tab_width)
    ELSE
        LET e == SegEnd(data, i)
            seg == SubSeq(data, i, e - 1)
            r == IF IsAsciiSeg(seg)
                 THEN WidthFold(AsciiCells(seg, tab_width), 1, width, limit)
                 ELSE WidthFold(for_each_grapheme_u16_slow(seg, tab_width), 1, width, limit)
        IN  IF r.exceeded THEN r ELSE VisibleWidthLoop(data, e, r.width, limit, tab_width)

visible_width_u16_up_to(data, limit, tab_width) == VisibleWidthLoop(data, 1, 0, limit, tab_width)

visible_width_u16(data, tab_width) == visible_width_u16_up_to(data, USIZE_MAX, tab_width).width

(***************************************************************************)
(* wrapTextWithAnsi.                                                       *)
(***************************************************************************)
write_active_codes(state) == IF ~is_empty(state) THEN write_restore_u16(state) ELSE <<>>

write_line_end_reset(state) ==
    IF HasBit(state.attrs, ATTR_UNDERLINE) THEN <<ESC, 91, 50, 52, 109>> ELSE <<>>

RECURSIVE UpdateStateLoop(_, _, _)
UpdateStateLoop(data, i, state) ==
    IF i > Len(data) THEN state
    ELSE LET seq_len == IF data[i] = ESC THEN ansi_seq_len_u16(data, i) ELSE 0
             seq == SubSeq(data, i, i + seq_len - 1)
         IN  IF seq_len > 0
             THEN UpdateStateLoop(data, i + seq_len,
                                  IF is_sgr_u16(seq)
                                  THEN apply_sgr_u16(state, SubSeq(seq, 3, seq_len - 1))
                                  ELSE state)
             ELSE UpdateStateLoop(data, i + 1, state)

\* The state after the SGR sequences of data are applied, in order, to state.
update_state_from_text(data, state) == UpdateStateLoop(data, 1, state)

RECURSIVE TokenIsWhitespaceFrom(_, _)
TokenIsWhitespaceFrom(token, i) ==
    IF i > Len(token) THEN TRUE
    ELSE LET seq_len == IF token[i] = ESC THEN ansi_seq_len_u16(token, i) ELSE 0
         IN  IF seq_len > 0 THEN TokenIsWhitespaceFrom(token, i + seq_len)
             ELSE IF token[i] # 32 THEN FALSE
             ELSE TokenIsWhitespaceFrom(token, i + 1)

token_is_whitespace(token) == TokenIsWhitespaceFrom(token, 1)

RECURSIVE trim_end_spaces_in_place(_)
trim_end_spaces_in_place(line) ==
    IF line # <<>> /\ line[Len(line)] = 32
    THEN trim_end_spaces_in_place(SubSeq(line, 1, Len(line) - 1))
    ELSE line

RECURSIVE SplitTokensLoop(_, _, _, _, _, _)
SplitTokensLoop(line, i, tokens, current, pending_ansi, in_whitespace) ==
    IF i > Len(line) THEN
        LET last == current \o pending_ansi
        IN  IF last # <<>> THEN Append(tokens, last) ELSE tokens
    ELSE LET seq_len == IF line[i] = ESC THEN ansi_seq_len_u16(line, i) ELSE 0
         IN  IF seq_len > 0 THEN
                 SplitTokensLoop(line, i + seq_len, tokens, current,
                                 pending_ansi \o SubSeq(line, i, i + seq_len - 1), in_whitespace)
             ELSE
                 LET ch == line[i]
                     char_is_space == ch = 32
                     flush == char_is_space # in_whitespace /\ current # <<>>
                     tokens2 == IF flush THEN Append(tokens, current) ELSE tokens
                     current2 == IF flush THEN <<>> ELSE current
                 IN  SplitTokensLoop(line, i + 1, tokens2,
                                     Append(current2 \o pending_ansi, ch), <<>>, char_is_space)

split_into_tokens_with_ansi(line) == SplitTokensLoop(line, 1, <<>>, <<>>, <<>>, FALSE)

\* One cell of a long word: a line is closed first when the cell does not fit.
BreakCell(s, cell) ==
    IF s.current_width + cell.w > s.width
    THEN [s EXCEPT !.lines = Append(@, s.current_line \o write_line_end_reset(s.state)),
                   !.current_line = write_active_codes(s.state) \o cell.units,
                   !.current_width = cell.w]
    ELSE [s EXCEPT !.current_line = @ \o cell.units,
                   !.current_width = @ + cell.w]

RECURSIVE BreakCells(_, _, _)
BreakCells(s, cells, k) ==
    IF k > Len(cells) THEN s ELSE BreakCells(BreakCell(s, cells[k]), cells, k + 1)

\* The locals of break_long_word when its loop is entered.
BreakLongWordEnter(word, width, tab_width, state) ==
    [word |-> word, width |-> width, tab_width |-> tab_width, state |-> state,
     lines |-> <<>>, current_line |-> write_active_codes(state), current_width |-> 0, i |-> 1]

\* One iteration of the while loop of break_long_word, for s.i within the word.
BreakLongWordIteration(s) ==
    LET seq_len == IF s.word[s.i] = ESC THEN ansi_seq_len_u16(s.word, s.i) ELSE 0
        seq == SubSeq(s.word, s.i, s.i + seq_len - 1)
    IN  IF seq_len > 0 THEN
            [s EXCEPT !.current_line = @ \o seq,
                      !.state = IF is_sgr_u16(seq)
                                THEN apply_sgr_u16(@, SubSeq(seq, 3, seq_len - 1)) ELSE @,
                      !.i = @ + seq_len]
        ELSE
            LET e == SegEnd(s.word, s.i)
                seg == SubSeq(s.word, s.i, e - 1)
                cells == IF IsAsciiSeg(seg) THEN AsciiCells(seg, s.tab_width)
                         ELSE for_each_grapheme_u16_slow(seg, s.tab_width)
            IN  [BreakCells(s, cells, 1) EXCEPT !.i = e]

\* Runs the loop: it returns when i passes the word, and never returns from a state
\* that an iteration leaves unchanged.
RECURSIVE BreakLongWordRun(_)
BreakLongWordRun(s) ==
    IF s.i > Len(s.word) THEN
        [hung |-> FALSE, state |-> s.state, loop |-> <<>>,
         lines |-> IF s.current_line # <<>> THEN Append(s.lines, s.current_line) ELSE s.lines]
    ELSE LET s2 == BreakLongWordIteration(s)
         IN  IF s2 = s THEN [hung |-> TRUE, state |-> s.state, loop |-> s, lines |-> <<>>]
             ELSE BreakLongWordRun(s2)

break_long_word(word, width, tab_width, state) ==
    BreakLongWordRun(BreakLongWordEnter(word, width, tab_width, state))

\* The locals of wrap_single_line after the lines of a broken word are taken over.
TakeBroken(flushed, broken, n, tab_width) ==
    IF broken.hung THEN [flushed EXCEPT !.hung = TRUE, !.loop = broken.loop]
    ELSE IF n > 0 THEN
        [flushed EXCEPT !.wrapped = @ \o SubSeq(broken.lines, 1, n - 1),
                        !.current_line = broken.lines[n],
                        !.current_width = visible_width_u16(broken.lines[n], tab_width),
                        !.state = broken.state]
    ELSE [flushed EXCEPT !.state = broken.state]

\* The current line is pushed with its line-end reset before a long word is broken.
FlushCurrentLine(s) ==
    IF s.current_line # <<>>
    THEN [s EXCEPT !.wrapped = Append(@, s.current_line \o write_line_end_reset(s.state)),
                   !.current_line = <<>>,
                   !.current_width = 0]
    ELSE s

\* A token that is not broken: it starts a new line when it does not fit the current one.
PlaceToken(s, token, token_width, is_whitespace, state2, width) ==
    IF s.current_width + token_width > width /\ s.current_width > 0 THEN
        [s EXCEPT !.wrapped = Append(@, trim_end_spaces_in_place(s.current_line)
                                           \o write_line_end_reset(s.state)),
                  !.current_line = write_active_codes(s.state)
                                       \o (IF is_whitespace THEN <<>> ELSE token),
                  !.current_width = IF is_whitespace THEN 0 ELSE token_width,
                  !.state = state2]
    ELSE [s EXCEPT !.current_line = @ \o token,
                   !.current_width = @ + token_width,
                   !.state = state2]

BreakOrPlace(s, token, token_width, is_whitespace, width, tab_width) ==
    IF token_width > width /\ ~is_whitespace
    THEN LET broken == break_long_word(token, width, tab_width, s.state)
         IN  TakeBroken(FlushCurrentLine(s), broken, Len(broken.lines), tab_width)
    ELSE PlaceToken(s, token, token_width, is_whitespace,
                    update_state_from_text(token, s.state), width)

\* The body of the token loop of wrap_single_line for one token: the locals after it.
WrapToken(s, token, width, tab_width) ==
    BreakOrPlace(s, token, visible_width_u16(token, tab_width), token_is_whitespace(token),
                 width, tab_width)

\* The token loop of wrap_single_line from token k on.
RECURSIVE WrapTokens(_, _, _, _, _)
WrapTokens(tokens, k, s, width, tab_width) ==
    IF s.hung \/ k > Len(tokens) THEN s
    ELSE WrapTokens(tokens, k + 1, WrapToken(s, tokens[k], width, tab_width), width, tab_width)

\* Every wrapped line is trimmed of its trailing spaces; no line at all gives one empty line.
TrimLines(wrapped) ==
    IF wrapped = <<>> THEN <<(<<>>)>>
    ELSE [k \in 1..Len(wrapped) |-> trim_end_spaces_in_place(wrapped[k])]

\* The end of wrap_single_line, from the locals that the token loop leaves.
FinishTokens(s) ==
    IF s.hung THEN [hung |-> TRUE, loop |-> s.loop, lines |-> <<>>]
    ELSE [hung |-> FALSE, loop |-> <<>>,
          lines |-> TrimLines(IF s.current_line # <<>> THEN Append(s.wrapped, s.current_line)
                              ELSE s.wrapped)]

wrap_single_line(line, width, tab_width) ==
    IF line = <<>> THEN [hung |-> FALSE, loop |-> <<>>, lines |-> <<(<<>>)>>]
    ELSE IF visible_width_u16(line, tab_width) <= width
    THEN [hung |-> FALSE, loop |-> <<>>, lines |-> <<line>>]
    ELSE FinishTokens(WrapTokens(split_into_tokens_with_ansi(line), 1,
                                 [hung |-> FALSE, loop |-> <<>>, wrapped |-> <<>>,
                                  current_line |-> <<>>, current_width |-> 0,
                                  state |-> AnsiState_new],
                                 width, tab_width))

\* The physical lines of text: the runs between '\n' units.
RECURSIVE SplitLines(_, _, _)
SplitLines(text, line_start, i) ==
    IF i > Len(text) THEN <<SubSeq(text, line_start, Len(text))>>
    ELSE IF text[i] = 10
    THEN <<SubSeq(text, line_start, i - 1)>> \o SplitLines(text, i + 1, i + 1)
    ELSE SplitLines(text, line_start, i + 1)

\* The lines of one physical line are added to the result.
ExtendResult(acc, wrapped) ==
    IF wrapped.hung THEN wrapped ELSE [acc EXCEPT !.lines = @ \o wrapped.lines]

\* The loop of wrap_text_with_ansi_impl over the physical lines, from line k on.
RECURSIVE WrapLines(_, _, _, _, _, _)
WrapLines(phys, k, acc, state, width, tab_width) ==
    IF acc.hung \/ k > Len(phys) THEN acc
    ELSE WrapLines(phys, k + 1,
                   ExtendResult(acc,
                       wrap_single_line((IF acc.lines # <<>> THEN write_active_codes(state)
                                         ELSE <<>>) \o phys[k],
                                        width, tab_width)),
                   update_state_from_text(phys[k], state), width, tab_width)

wrap_text_with_ansi_impl(text, width, tab_width) ==
    IF text = <<>> THEN [hung |-> FALSE, loop |-> <<>>, lines |-> <<(<<>>)>>]
    ELSE WrapLines(SplitLines(text, 1, 1), 1, [hung |-> FALSE, loop |-> <<>>, lines |-> <<>>],
                   AnsiState_new, width, tab_width)

wrap_text_with_ansi(text, width, tab_width_arg) ==
    [wrap_text_with_ansi_impl(text, width, clamp_tab_width(tab_width_arg))
        EXCEPT !.lines = [k \in 1..Len(@) |-> build_utf16_string(@[k])]]

(***************************************************************************)
(* truncateToWidth.                                                        *)
(***************************************************************************)
ELLIPSIS_UNICODE == <<8230>>
ELLIPSIS_ASCII == <<46, 46, 46>>
ELLIPSIS_OMIT == <<>>

EllipsisOf(ellipsis_kind) ==
    CASE ellipsis_kind = 0 -> [units |-> ELLIPSIS_UNICODE, w |-> 1]
      [] ellipsis_kind = 1 -> [units |-> ELLIPSIS_ASCII, w |-> 3]
      [] ellipsis_kind = 2 -> [units |-> ELLIPSIS_OMIT, w |-> 0]
      [] OTHER -> [units |-> ELLIPSIS_UNICODE, w |-> 1]

\* Copies cells from k on while they fit in target_w; stopped tells that a cell was rejected.
RECURSIVE CopyWhileFits(_, _, _, _, _)
CopyWhileFits(cells, k, out, w, target_w) ==
    IF k > Len(cells) THEN [out |-> out, w |-> w, stopped |-> FALSE]
    ELSE IF w + cells[k].w > target_w THEN [out |-> out, w |-> w, stopped |-> TRUE]
    ELSE CopyWhileFits(cells, k + 1, out \o cells[k].units, w + cells[k].w, target_w)

\* The main truncation loop: (out, w, saw_sgr) when it ends.
RECURSIVE TruncateLoop(_, _, _, _, _, _, _)
TruncateLoop(text, i, out, w, saw_sgr, target_w, tab_width) ==
    IF i > Len(text) THEN [out |-> out, w |-> w, saw_sgr |-> saw_sgr]
    ELSE IF text[i] = ESC THEN
        LET seq_len == ansi_seq_len_u16(text, i)
            seq == SubSeq(text, i, i + seq_len - 1)
        IN  IF seq_len > 0
            THEN TruncateLoop(text, i + seq_len, out \o seq, w, saw_sgr \/ is_sgr_u16(seq),
                              target_w, tab_width)
            ELSE TruncateLoop(text, i + 1, Append(out, ESC), w, saw_sgr, target_w, tab_width)
    ELSE
        LET e == SegEnd(text, i)
            seg == SubSeq(text, i, e - 1)
        IN  IF IsAsciiSeg(seg) THEN
                LET r == CopyWhileFits(AsciiCells(seg, tab_width), 1, out, w, target_w)
                IN  IF r.w >= target_w
                    THEN [out |-> r.out, w |-> r.w, saw_sgr |-> saw_sgr]
                    ELSE TruncateLoop(text, e, r.out, r.w, saw_sgr, target_w, tab_width)
            ELSE
                LET r == CopyWhileFits(for_each_grapheme_u16_slow(seg, tab_width), 1, out, w,
                                       target_w)
                IN  IF r.stopped
                    THEN [out |-> r.out, w |-> r.w, saw_sgr |-> saw_sgr]
                    ELSE TruncateLoop(text, e, r.out, r.w, saw_sgr, target_w, tab_width)

truncate_to_width(text, max_width, ellipsis_kind, pad, tab_width_arg) ==
    LET tab_width == clamp_tab_width(tab_width_arg)
        fast == visible_width_u16_up_to(text, max_width, tab_width)
        ellipsis == EllipsisOf(ellipsis_kind)
        target_w == Max(max_width - ellipsis.w, 0)
    IN  IF ~fast.exceeded THEN
            IF ~pad THEN text
            ELSE IF fast.width < max_width
            THEN build_utf16_string(text \o Spaces(max_width - fast.width))
            ELSE text
        ELSE IF target_w = 0 THEN
            LET r == CopyWhileFits(for_each_grapheme_u16_slow(ellipsis.units, tab_width), 1,
                                   <<>>, 0, max_width)
            IN  build_utf16_string(r.out \o (IF pad /\ r.w < max_width
                                             THEN Spaces(max_width - r.w) ELSE <<>>))
        ELSE
            LET r == TruncateLoop(text, 1, <<>>, 0, FALSE, target_w, tab_width)
                out_w == r.w + ellipsis.w
            IN  build_utf16_string(
                    r.out \o (IF r.saw_sgr THEN <<ESC, 91, 48, 109>> ELSE <<>>)
                          \o ellipsis.units
                          \o (IF pad /\ out_w < max_width THEN Spaces(max_width - out_w)
                              ELSE <<>>))

(***************************************************************************)
(* The inputs of the model: texts are made of at most MaxPieces pieces, a  *)
(* piece being one code unit or one whole SGR sequence.                    *)
(***************************************************************************)
SGR_UNDERLINE == <<ESC, 91, 52, 109>>
SGR_RESET == <<ESC, 91, 109>>
LINE_END_RESET == <<ESC, 91, 50, 52, 109>>
\* The wide character of the model: U+4E2D, two columns.
WIDE == <<20013>>

TextsOf(pieces, n) == {Flatten(ps) : ps \in SeqsUpTo(pieces, n)}

TruncPieces == {<<97>>, <<9>>, WIDE, <<49>>, <<ESC>>, <<91>>, SGR_RESET}

TruncCalls ==
    [op : {"truncate_to_width"}, text : TextsOf(TruncPieces, MaxPieces),
     max_width : 0..MaxWidth, ellipsis_kind : {0, 1, 2}, pad : BOOLEAN,
     tab_width : {None, 2}]

InitTrunc == pc = "ready" /\ call \in TruncCalls /\ ret = <<>> /\ loop = <<>>

TruncateToWidth ==
    /\ pc = "ready"
    /\ call.op = "truncate_to_width"
    /\ ret' = truncate_to_width(call.text, call.max_width, call.ellipsis_kind, call.pad,
                                call.tab_width)
    /\ pc' = "done"
    /\ UNCHANGED <<call, loop>>

NextTrunc == TruncateToWidth

SpecTrunc == InitTrunc /\ [][NextTrunc]_vars

\* C1: the visible width of the result of truncate_to_width, measured with the same
\* tab width, is at most max_width.
C1_TruncationBound ==
    (pc = "done" /\ call.op = "truncate_to_width") =>
        visible_width_u16(ret, clamp_tab_width(call.tab_width)) <= call.max_width

\* The cells of data that occupy columns, in order: the units of every ASCII unit or
\* grapheme of positive width outside escape sequences, as visible_width_u16 scans them.
RECURSIVE VisibleCellsFrom(_, _, _)
VisibleCellsFrom(data, i, tab_width) ==
    IF i > Len(data) THEN <<>>
    ELSE IF data[i] = ESC THEN
        LET seq_len == ansi_seq_len_u16(data, i)
        IN  VisibleCellsFrom(data, IF seq_len > 0 THEN i + seq_len ELSE i + 1, tab_width)
    ELSE
        LET e == SegEnd(data, i)
            seg == SubSeq(data, i, e - 1)
            cells == IF IsAsciiSeg(seg) THEN AsciiCells(seg, tab_width)
                     ELSE for_each_grapheme_u16_slow(seg, tab_width)
        IN  SelectSeq(cells, LAMBDA c : c.w > 0) \o VisibleCellsFrom(data, e, tab_width)

VisibleCells(data, tab_width) == VisibleCellsFrom(data, 1, tab_width)

\* The call truncates: the text is wider than max_width and the ellipsis leaves room.
Truncates ==
    /\ pc = "done"
    /\ call.op = "truncate_to_width"
    /\ visible_width_u16_up_to(call.text, call.max_width, clamp_tab_width(call.tab_width)).exceeded
    /\ call.max_width > EllipsisOf(call.ellipsis_kind).w

\* What the main truncation loop of the call copied before the reset and the ellipsis.
TruncCopied ==
    TruncateLoop(call.text, 1, <<>>, 0, FALSE,
                 call.max_width - EllipsisOf(call.ellipsis_kind).w,
                 clamp_tab_width(call.tab_width)).out

\* C8: when truncate_to_width truncates, the visible cells copied before the ellipsis
\* are a prefix of the visible cells of the input: no cell is copied after a rejected one.
C8_CopiedCellsArePrefix ==
    Truncates =>
        IsPrefix(VisibleCells(TruncCopied, clamp_tab_width(call.tab_width)),
                 VisibleCells(call.text, clamp_tab_width(call.tab_width)))

(***************************************************************************)
(* Specification of the calls of wrap_text_with_ansi.                      *)
(***************************************************************************)
WrapPieces == {<<97>>, <<32>>, <<9>>, WIDE, <<10>>, <<ESC>>, SGR_UNDERLINE, SGR_RESET}

WrapCalls ==
    [op : {"wrap_text_with_ansi"}, text : TextsOf(WrapPieces, MaxPieces),
     width : 1..MaxWidth, tab_width : {None}]

InitWrap == pc = "ready" /\ call \in WrapCalls /\ ret = <<>> /\ loop = <<>>

\* The call ends with its lines, or inside the loop of break_long_word.
WrapReturns(r) ==
    IF r.hung
    THEN pc' = "break_long_word" /\ loop' = r.loop /\ ret' = <<>>
    ELSE pc' = "done" /\ loop' = <<>> /\ ret' = r.lines

\* The call runs until it returns its lines, or until break_long_word is at a position
\* that its next iteration leaves unchanged.
WrapTextWithAnsi ==
    /\ pc = "ready"
    /\ call.op = "wrap_text_with_ansi"
    /\ WrapReturns(wrap_text_with_ansi(call.text, call.width, call.tab_width))
    /\ UNCHANGED call

\* break_long_word iterates again.
BreakLongWordIterate ==
    /\ pc = "break_long_word"
    /\ loop.i <= Len(loop.word)
    /\ loop' = BreakLongWordIteration(loop)
    /\ UNCHANGED <<pc, call, ret>>

NextWrap == WrapTextWithAnsi \/ BreakLongWordIterate

SpecWrap == InitWrap /\ [][NextWrap]_vars

WrapDone == pc = "done" /\ call.op = "wrap_text_with_ansi"

\* C2: wrap_text_with_ansi returns for every text: a call is never inside a scanning
\* loop at a position that the next iteration does not advance.
C2_WrapTerminates ==
    (pc = "break_long_word" /\ loop.i <= Len(loop.word)) =>
        BreakLongWordIteration(loop).i > loop.i

\* C3: every output line of wrap_text_with_ansi is at most width columns wide, unless
\* it holds a single grapheme (or tab) that is itself wider than width.
C3_WrapWidth ==
    WrapDone =>
        \A k \in 1..Len(ret) :
            LET tab_width == clamp_tab_width(call.tab_width)
                cells == VisibleCells(ret[k], tab_width)
            IN  \/ visible_width_u16(ret[k], tab_width) <= call.width
                \/ Len(cells) = 1 /\ cells[1].w > call.width

\* C9: no output line of wrap_text_with_ansi ends with a space, whether its physical
\* line was wrapped or already fitted.
C9_NoTrailingSpace ==
    WrapDone => \A k \in 1..Len(ret) : ret[k] = <<>> \/ ret[k][Len(ret[k])] # 32

\* The output line without the line-end reset at its end, if it has one.
WithoutLineEndReset(line) ==
    IF IsSuffix(LINE_END_RESET, line) THEN SubSeq(line, 1, Len(line) - Len(LINE_END_RESET))
    ELSE line

\* Underline is active where output line k ends: the SGR sequences of the text up to
\* there, which the output lines carry in order, leave the underline attribute set.
UnderlineAtEndOf(k) ==
    HasBit(update_state_from_text(Flatten(SubSeq(ret, 1, k - 1)) \o WithoutLineEndReset(ret[k]),
                                  AnsiState_new).attrs,
           ATTR_UNDERLINE)

\* C10: an output line at whose end underline is active ends with the line-end reset
\* CSI 24 m, and a line at whose end it is not active has no such reset (no text of the
\* model holds CSI 24 m itself, so a reset at a line's end is an appended one).
C10_LineEndReset ==
    WrapDone =>
        \A k \in 1..Len(ret) : UnderlineAtEndOf(k) <=> IsSuffix(LINE_END_RESET, ret[k])

(***************************************************************************)
(* The SGR state under which the cells of a text are rendered.             *)
(***************************************************************************)
\* The unit at i starts no escape sequence, occupies columns and is not a space.
IsContentCell(data, i, tab_width) ==
    /\ data[i] # 32
    /\ (IF data[i] <= 127 THEN ascii_cell_width_u16(data[i], tab_width)
        ELSE UnicodeWidthChar(data[i])) > 0

\* The SGR state at every content cell of data from i on, in order, and the state at
\* the end, when data is rendered from state.
RECURSIVE StyledCellsFrom(_, _, _, _)
StyledCellsFrom(data, i, state, tab_width) ==
    IF i > Len(data) THEN [cells |-> <<>>, state |-> state]
    ELSE IF data[i] = ESC /\ ansi_seq_len_u16(data, i) > 0
    THEN LET seq == SubSeq(data, i, i + ansi_seq_len_u16(data, i) - 1)
         IN  StyledCellsFrom(data, i + Len(seq),
                             IF is_sgr_u16(seq)
                             THEN apply_sgr_u16(state, SubSeq(seq, 3, Len(seq) - 1))
                             ELSE state,
                             tab_width)
    ELSE IF data[i] # ESC /\ IsContentCell(data, i, tab_width)
    THEN [StyledCellsFrom(data, i + 1, state, tab_width) EXCEPT !.cells = <<state>> \o @]
    ELSE StyledCellsFrom(data, i + 1, state, tab_width)

\* The states at the content cells of the physical lines of the input from line k on,
\* the state carried from one physical line to the next.
RECURSIVE InputStyledCells(_, _, _, _)
InputStyledCells(phys, k, state, tab_width) ==
    IF k > Len(phys) THEN <<>>
    ELSE LET r == StyledCellsFrom(phys[k], 1, state, tab_width)
         IN  r.cells \o InputStyledCells(phys, k + 1, r.state, tab_width)

\* The number of content cells of the output lines before line k.
RECURSIVE CellsBefore(_, _)
CellsBefore(out, k) == IF k <= 1 THEN 0 ELSE CellsBefore(out, k - 1) + Len(out[k - 1])

\* Every output line after the first, rendered on its own, shows its first content cell
\* under the state that the input has at that cell.
LinesCarryState(input, out) ==
    \A k \in 2..Len(out) :
        (out[k] # <<>> /\ CellsBefore(out, k) < Len(input)) =>
            out[k][1] = input[CellsBefore(out, k) + 1]

\* C11: every output line of wrap_text_with_ansi after the first begins with the
\* serialization of the SGR state that is active in the input where the content of the
\* line starts: rendered from the default state, the line shows its first content cell
\* under the attributes and colours that the cell has in the unwrapped input.
C11_WrapCarriesState ==
    WrapDone =>
        LinesCarryState(
            InputStyledCells(SplitLines(call.text, 1, 1), 1, AnsiState_new,
                             clamp_tab_width(call.tab_width)),
            [k \in 1..Len(ret) |->
                StyledCellsFrom(ret[k], 1, AnsiState_new,
                                clamp_tab_width(call.tab_width)).cells])

(***************************************************************************)
(* sliceWithWidth.                                                         *)
(***************************************************************************)
\* value.min(u32::MAX) as u32; the integers of the model end at USIZE_MAX.
clamp_u32(value) == Min(value, USIZE_MAX)

\* A cell is copied in full when strict is off, and only if it ends by end_col otherwise.
SliceFitsAlways(strict, current_col, gw, end_col) == TRUE

SliceFits(strict, current_col, gw, end_col) == ~strict \/ current_col + gw <= end_col

\* One cell of a plain run: the locals of slice_with_width_impl after it. Past end_col
\* the run is left, so that the remaining cells change nothing.
SliceCell(s, cell, start_col, end_col, strict) ==
    IF s.current_col >= end_col THEN s
    ELSE IF s.current_col >= start_col /\ SliceFits(strict, s.current_col, cell.w, end_col)
    THEN [s EXCEPT !.out = @ \o s.pending_ansi \o cell.units,
                   !.pending_ansi = <<>>,
                   !.out_w = @ + cell.w,
                   !.current_col = @ + cell.w]
    ELSE [s EXCEPT !.current_col = @ + cell.w]

RECURSIVE SliceCells(_, _, _, _, _, _)
SliceCells(s, cells, k, start_col, end_col, strict) ==
    IF k > Len(cells) THEN s
    ELSE SliceCells(SliceCell(s, cells[k], start_col, end_col, strict), cells, k + 1,
                    start_col, end_col, strict)

\* An ESC at s.i: a recognised sequence of seq_len units is copied or kept pending, an
\* ESC that starts none (seq_len = 0) is copied alone once start_col is reached.
SliceEscape(s, line, seq_len, start_col) ==
    IF seq_len > 0 THEN
        IF s.current_col >= start_col
        THEN [s EXCEPT !.out = @ \o SubSeq(line, s.i, s.i + seq_len - 1), !.i = @ + seq_len]
        ELSE [s EXCEPT !.pending_ansi = @ \o SubSeq(line, s.i, s.i + seq_len - 1),
                       !.i = @ + seq_len]
    ELSE IF s.current_col >= start_col
    THEN [s EXCEPT !.out = Append(@, ESC), !.i = @ + 1]
    ELSE [s EXCEPT !.i = @ + 1]

\* The plain run seg that starts at s.i.
SliceSegment(s, seg, start_col, end_col, strict, tab_width) ==
    [SliceCells(s, IF IsAsciiSeg(seg) THEN AsciiCells(seg, tab_width)
                   ELSE for_each_grapheme_u16_slow(seg, tab_width),
                1, start_col, end_col, strict)
        EXCEPT !.i = @ + Len(seg)]

\* The main loop of slice_with_width_impl.
RECURSIVE SliceLoop(_, _, _, _, _, _)
SliceLoop(s, line, start_col, end_col, strict, tab_width) ==
    IF s.i > Len(line) \/ s.current_col >= end_col THEN s
    ELSE IF line[s.i] = ESC
    THEN SliceLoop(SliceEscape(s, line, ansi_seq_len_u16(line, s.i), start_col),
                   line, start_col, end_col, strict, tab_width)
    ELSE SliceLoop(SliceSegment(s, SubSeq(line, s.i, SegEnd(line, s.i) - 1),
                                start_col, end_col, strict, tab_width),
                   line, start_col, end_col, strict, tab_width)

\* The recognised escape sequences that follow position i at once.
RECURSIVE TrailingEscapes(_, _)
TrailingEscapes(line, i) ==
    IF i <= Len(line) /\ line[i] = ESC /\ ansi_seq_len_u16(line, i) > 0
    THEN SubSeq(line, i, i + ansi_seq_len_u16(line, i) - 1)
             \o TrailingEscapes(line, i + ansi_seq_len_u16(line, i))
    ELSE <<>>

SliceFinish(s, line) == [out |-> s.out \o TrailingEscapes(line, s.i), out_w |-> s.out_w]

slice_with_width_impl(line, start_col, length, strict, tab_width) ==
    SliceFinish(SliceLoop([out |-> <<>>, out_w |-> 0, current_col |-> 0, i |-> 1,
                           pending_ansi |-> <<>>],
                          line, start_col, Min(start_col + length, USIZE_MAX), strict,
                          tab_width),
                line)

SliceResult(r) == [text |-> build_utf16_string(r.out), width |-> clamp_u32(r.out_w)]

slice_with_width(line, start_col, length, strict, tab_width_arg) ==
    SliceResult(slice_with_width_impl(line, start_col, length, strict,
                                      clamp_tab_width(tab_width_arg)))

(***************************************************************************)
(* Specification of the calls of slice_with_width.                         *)
(***************************************************************************)
SlicePieces == {<<97>>, <<9>>, WIDE, <<ESC>>, <<91>>, SGR_RESET}

SliceCalls ==
    [op : {"slice_with_width"}, text : TextsOf(SlicePieces, MaxPieces),
     start_col : 0..MaxWidth, length : 0..MaxWidth, strict : BOOLEAN, tab_width : {None}]

InitSlice == pc = "ready" /\ call \in SliceCalls /\ ret = <<>> /\ loop = <<>>

SliceWithWidth ==
    /\ pc = "ready"
    /\ call.op = "slice_with_width"
    /\ ret' = slice_with_width(call.text, call.start_col, call.length, call.strict,
                               call.tab_width)
    /\ pc' = "done"
    /\ UNCHANGED <<call, loop>>

NextSlice == SliceWithWidth

SpecSlice == InitSlice /\ [][NextSlice]_vars

StrictSliceDone == pc = "done" /\ call.op = "slice_with_width" /\ call.strict

\* C4: with strict set, the text that slice_with_width returns is at most length columns
\* wide, and so is the width it reports: a cell that would end past the end column is
\* not in the result.
C4_StrictSliceWidth ==
    StrictSliceDone =>
        /\ visible_width_u16(ret.text, clamp_tab_width(call.tab_width)) <= call.length
        /\ ret.width <= call.length

\* A strict slice whose range ends inside a wide cell or a tab of the text: the cell is
\* dropped and the slice is narrower than length.
C4_StraddlingCellDropped ==
    /\ StrictSliceDone
    /\ visible_width_u16(call.text, clamp_tab_width(call.tab_width))
           > call.start_col + call.length
    /\ ret.width > 0
    /\ ret.width < call.length


\* The columns of a line followed cell by cell: kept is the output when the last cell was
\* copied, last the position behind that cell (0 while no cell is copied).
IncludedCell(r, cell, start_col, end_col, strict) ==
    IF r.col >= end_col THEN r
    ELSE IF r.col >= start_col /\ (~strict \/ r.col + cell.w <= end_col)
    THEN [r EXCEPT !.kept = r.out \o r.pending \o cell.units,
                   !.out = r.out \o r.pending \o cell.units,
                   !.pending = <<>>,
                   !.col = @ + cell.w,
                   !.pos = @ + Len(cell.units),
                   !.last = r.pos + Len(cell.units)]
    ELSE [r EXCEPT !.col = @ + cell.w, !.pos = @ + Len(cell.units)]

RECURSIVE IncludedCells(_, _, _, _, _, _)
IncludedCells(r, cells, k, start_col, end_col, strict) ==
    IF k > Len(cells) THEN r
    ELSE IncludedCells(IncludedCell(r, cells[k], start_col, end_col, strict), cells, k + 1,
                       start_col, end_col, strict)

\* An escape sequence of n units at r.pos (n = 0: an ESC that starts none, which is
\* copied like a cell of no width).
IncludedEscape(r, line, n, start_col) ==
    IF n > 0 THEN
        IF r.col >= start_col
        THEN [r EXCEPT !.out = @ \o SubSeq(line, r.pos, r.pos + n - 1), !.pos = @ + n]
        ELSE [r EXCEPT !.pending = @ \o SubSeq(line, r.pos, r.pos + n - 1), !.pos = @ + n]
    ELSE IF r.col >= start_col
    THEN [r EXCEPT !.out = Append(@, ESC), !.kept = Append(r.out, ESC), !.pos = @ + 1,
                   !.last = r.pos + 1]
    ELSE [r EXCEPT !.pos = @ + 1]

RECURSIVE IncludedLoop(_, _, _, _, _, _)
IncludedLoop(r, line, start_col, end_col, strict, tab_width) ==
    IF r.pos > Len(line) \/ r.col >= end_col THEN r
    ELSE IF line[r.pos] = ESC
    THEN IncludedLoop(IncludedEscape(r, line, ansi_seq_len_u16(line, r.pos), start_col),
                      line, start_col, end_col, strict, tab_width)
    ELSE IncludedLoop(IncludedCells(r, IF IsAsciiSeg(SubSeq(line, r.pos, SegEnd(line, r.pos) - 1))
                                       THEN AsciiCells(SubSeq(line, r.pos, SegEnd(line, r.pos) - 1), tab_width)
                                       ELSE for_each_grapheme_u16_slow(SubSeq(line, r.pos, SegEnd(line, r.pos) - 1), tab_width),
                                    1, start_col, end_col, strict),
                      line, start_col, end_col, strict, tab_width)

Included(line, start_col, length, strict, tab_width) ==
    IncludedLoop([out |-> <<>>, pending |-> <<>>, col |-> 0, pos |-> 1, kept |-> <<>>,
                  last |-> 0],
                 line, start_col, Min(start_col + length, USIZE_MAX), strict, tab_width)

\* The copied cells up to the last one, and the run of recognised escape sequences that
\* follows that cell at once.
WithTrailingRun(line, r) == r.kept \o TrailingEscapes(line, r.last)

SliceIncluded ==
    Included(call.text, call.start_col, call.length, call.strict,
             clamp_tab_width(call.tab_width))

\* C17: behind the cells in range, slice_with_width returns exactly the run of
\* recognised escape sequences that follows the last copied cell of the input at once:
\* no escape sequence from behind a further visible cell that is left out.
C17_TrailingRunOnly ==
    (pc = "done" /\ call.op = "slice_with_width" /\ SliceIncluded.last > 0) =>
        ret.text = build_utf16_string(WithTrailingRun(call.text, SliceIncluded))

(***************************************************************************)
(* sanitizeText.                                                           *)
(***************************************************************************)
\* The controls other than ESC.
IsControlNeverEsc(u) == u # ESC /\ (u <= 31 \/ u = 127 \/ u \in 128..159)

\* C0 + DEL + C1 controls (CR among them).
IsControl(u) == u <= 31 \/ u = 127 \/ u \in 128..159

IsHighSurrogate(u) == u \in 55296..56319

IsLowSurrogate(u) == u \in 56320..57343

\* Every high surrogate counts as the start of a pair.
IsValidPairUnfollowed(data, i) == IsHighSurrogate(data[i])

\* A high surrogate at i that a low surrogate follows.
IsValidPair(data, i) ==
    IsHighSurrogate(data[i]) /\ i + 1 <= Len(data) /\ IsLowSurrogate(data[i + 1])

\* remove_len for the unit at i, which is neither tab nor newline: the length of the
\* escape sequence that starts there, 1 for a control or a lone surrogate, 0 to keep it.
RemoveLen(data, i) ==
    IF data[i] = ESC /\ ansi_seq_len_u16(data, i) > 0 THEN ansi_seq_len_u16(data, i)
    ELSE IF data[i] = 13 THEN 1
    ELSE IF IsControl(data[i]) THEN 1
    ELSE IF IsHighSurrogate(data[i]) THEN (IF IsValidPair(data, i) THEN 0 ELSE 1)
    ELSE IF IsLowSurrogate(data[i]) THEN 1
    ELSE 0

\* The locals of sanitize_text after the unit at s.i is kept (remove_len = 0; a valid
\* surrogate pair is passed as a whole) or remove_len units are removed.
SanitizeUnit(s, data, remove_len) ==
    IF remove_len = 0
    THEN [s EXCEPT !.i = @ + (IF IsValidPair(data, s.i) THEN 2 ELSE 1)]
    ELSE [s EXCEPT !.did_change = TRUE,
                   !.out = @ \o SubSeq(data, s.last, s.i - 1),
                   !.i = @ + remove_len,
                   !.last = s.i + remove_len]

RECURSIVE SanitizeLoop(_, _)
SanitizeLoop(s, data) ==
    IF s.i > Len(data) THEN s
    ELSE IF data[s.i] = 9 \/ data[s.i] = 10 THEN SanitizeLoop([s EXCEPT !.i = @ + 1], data)
    ELSE SanitizeLoop(SanitizeUnit(s, data, RemoveLen(data, s.i)), data)

SanitizeFinish(s, data) ==
    IF ~s.did_change THEN data
    ELSE build_utf16_string(s.out \o SubSeq(data, s.last, Len(data)))

sanitize_text(data) ==
    SanitizeFinish(SanitizeLoop([did_change |-> FALSE, out |-> <<>>, last |-> 1, i |-> 1],
                                data),
                   data)

(***************************************************************************)
(* Specification of the calls of sanitize_text: a text is sanitized, and   *)
(* the result is sanitized again.                                          *)
(***************************************************************************)
\* The two units of U+1F600.
HIGH_SURROGATE == <<55357>>
LOW_SURROGATE == <<56832>>

SanitizePieces ==
    {<<ESC>>, <<91>>, <<109>>, <<13>>, <<10>>, <<9>>, <<127>>, <<155>>, HIGH_SURROGATE,
     LOW_SURROGATE}

SanitizeCalls == [op : {"sanitize_text"}, text : TextsOf(SanitizePieces, MaxPieces)]

InitSanitize == pc = "ready" /\ call \in SanitizeCalls /\ ret = <<>> /\ loop = <<>>

SanitizeText ==
    /\ pc = "ready"
    /\ call.op = "sanitize_text"
    /\ ret' = sanitize_text(call.text)
    /\ pc' = "sanitized"
    /\ UNCHANGED <<call, loop>>

\* The caller passes the result to sanitize_text again; loop keeps the first text.
SanitizeResult ==
    /\ pc = "sanitized"
    /\ call.op = "sanitize_text"
    /\ call' = [call EXCEPT !.text = ret]
    /\ loop' = call.text
    /\ ret' = sanitize_text(ret)
    /\ pc' = "done"

NextSanitize == SanitizeText \/ SanitizeResult

SpecSanitize == InitSanitize /\ [][NextSanitize]_vars

SanitizedTwice == pc = "done" /\ call.op = "sanitize_text"

\* C5: sanitize_text is idempotent: sanitizing the result of sanitize_text returns it
\* unchanged.
C5_SanitizeIdempotent == SanitizedTwice => ret = call.text

\* A text from which the first pass removed units and kept others, sanitized twice.
C5_RemovedAndKept == SanitizedTwice /\ call.text # loop /\ call.text # <<>>


Sanitized == pc \in {"sanitized", "done"} /\ call.op = "sanitize_text"

\* No ESC, no C0 control but TAB and LF, no DEL and no C1 control in text.
NoControls(text) ==
    \A i \in 1..Len(text) :
        /\ text[i] # 27
        /\ text[i] <= 31 => text[i] \in {9, 10}
        /\ text[i] # 127
        /\ text[i] \notin 128..159

\* Every high surrogate of text is followed by a low one, every low surrogate preceded by
\* a high one.
NoLoneSurrogates(text) ==
    \A i \in 1..Len(text) :
        /\ text[i] \in 55296..56319 => i < Len(text) /\ text[i + 1] \in 56320..57343
        /\ text[i] \in 56320..57343 => i > 1 /\ text[i - 1] \in 55296..56319

\* C19: the output of sanitize_text has no ESC, no C0 control other than TAB and LF, no
\* DEL, no C1 control and no unpaired surrogate.
C19_SanitizedUnits == Sanitized => NoControls(ret) /\ NoLoneSurrogates(ret)

\* A text with an ESC, and with a high surrogate that no low surrogate follows, of which
\* sanitize_text has kept a tab.
C19_SanitizedMixedText ==
    /\ pc = "sanitized"
    /\ \E i \in 1..Len(call.text) : call.text[i] = ESC
    /\ \E i \in 1..Len(call.text) :
           IsHighSurrogate(call.text[i]) /\ ~IsValidPair(call.text, i)
    /\ \E i \in 1..Len(ret) : ret[i] = 9

(***************************************************************************)
(* extractSegments.                                                        *)
(***************************************************************************)
\* An escape met inside the after range is copied there at any time.
CopiesEscapeToAfterUnstarted(s, after_start, after_end) ==
    s.current_col >= after_start /\ s.current_col < after_end

\* An escape met inside the after range is copied there once after has started.
CopiesEscapeToAfter(s, after_start, after_end) ==
    s.current_col >= after_start /\ s.current_col < after_end /\ s.after_started

\* A recognised sequence seq at s.i: its SGR codes are applied, and it is kept pending
\* for before, copied into after, or dropped.
ExtractSequence(s, seq, before_end, after_start, after_end) ==
    [s EXCEPT !.state = IF is_sgr_u16(seq) THEN apply_sgr_u16(@, SubSeq(seq, 3, Len(seq) - 1))
                        ELSE @,
              !.pending_before_ansi = IF s.current_col < before_end THEN @ \o seq ELSE @,
              !.after = IF s.current_col >= before_end
                           /\ CopiesEscapeToAfter(s, after_start, after_end)
                        THEN @ \o seq ELSE @,
              !.i = @ + Len(seq)]

\* An ESC at s.i that starts no recognised sequence.
ExtractLoneEsc(s, before_end, after_start, after_end) ==
    [s EXCEPT !.before = IF s.current_col < before_end THEN Append(@, ESC) ELSE @,
              !.after = IF s.current_col >= before_end
                           /\ CopiesEscapeToAfter(s, after_start, after_end)
                        THEN Append(@, ESC) ELSE @,
              !.i = @ + 1]

\* One cell of a plain run: it goes to before, or to after behind the restored state,
\* or nowhere. Past done_col the run is left.
ExtractCell(s, cell, before_end, after_start, after_end, done_col, strict_after) ==
    IF s.current_col >= done_col THEN s
    ELSE IF s.current_col < before_end
    THEN [s EXCEPT !.before = @ \o s.pending_before_ansi \o cell.units,
                   !.pending_before_ansi = <<>>,
                   !.before_w = @ + cell.w,
                   !.current_col = @ + cell.w]
    ELSE IF /\ s.current_col >= after_start
            /\ s.current_col < after_end
            /\ (~strict_after \/ s.current_col + cell.w <= after_end)
    THEN [s EXCEPT !.after = @ \o (IF s.after_started THEN <<>>
                                   ELSE write_restore_u16(s.state)) \o cell.units,
                   !.after_started = TRUE,
                   !.after_w = @ + cell.w,
                   !.current_col = @ + cell.w]
    ELSE [s EXCEPT !.current_col = @ + cell.w]

RECURSIVE ExtractCells(_, _, _, _, _, _, _, _)
ExtractCells(s, cells, k, before_end, after_start, after_end, done_col, strict_after) ==
    IF k > Len(cells) THEN s
    ELSE ExtractCells(ExtractCell(s, cells[k], before_end, after_start, after_end, done_col,
                                  strict_after),
                      cells, k + 1, before_end, after_start, after_end, done_col, strict_after)

\* The plain run seg that starts at s.i.
ExtractSegment(s, seg, before_end, after_start, after_end, done_col, strict_after, tab_width) ==
    [ExtractCells(s, IF IsAsciiSeg(seg) THEN AsciiCells(seg, tab_width)
                     ELSE for_each_grapheme_u16_slow(seg, tab_width),
                  1, before_end, after_start, after_end, done_col, strict_after)
        EXCEPT !.i = @ + Len(seg)]

\* The loop of extract_segments_impl.
RECURSIVE ExtractLoop(_, _, _, _, _, _, _, _)
ExtractLoop(s, line, before_end, after_start, after_end, done_col, strict_after, tab_width) ==
    IF s.i > Len(line) \/ s.current_col >= done_col THEN s
    ELSE ExtractLoop(
             IF line[s.i] # ESC
             THEN ExtractSegment(s, SubSeq(line, s.i, SegEnd(line, s.i) - 1), before_end,
                                 after_start, after_end, done_col, strict_after, tab_width)
             ELSE IF ansi_seq_len_u16(line, s.i) > 0
             THEN ExtractSequence(s, SubSeq(line, s.i, s.i + ansi_seq_len_u16(line, s.i) - 1),
                                  before_end, after_start, after_end)
             ELSE ExtractLoneEsc(s, before_end, after_start, after_end),
             line, before_end, after_start, after_end, done_col, strict_after, tab_width)

extract_segments_impl(line, before_end, after_start, after_len, strict_after, tab_width) ==
    ExtractLoop([before |-> <<>>, before_w |-> 0, after |-> <<>>, after_w |-> 0,
                 current_col |-> 0, i |-> 1, pending_before_ansi |-> <<>>,
                 after_started |-> FALSE, state |-> AnsiState_new],
                line, before_end, after_start, Min(after_start + after_len, USIZE_MAX),
                IF after_len = 0 THEN before_end ELSE Min(after_start + after_len, USIZE_MAX),
                strict_after, tab_width)

ExtractSegmentsResult(r) ==
    [before |-> build_utf16_string(r.before), before_width |-> clamp_u32(r.before_w),
     after |-> build_utf16_string(r.after), after_width |-> clamp_u32(r.after_w)]

extract_segments(line, before_end, after_start, after_len, strict_after, tab_width_arg) ==
    ExtractSegmentsResult(extract_segments_impl(line, before_end, after_start, after_len,
                                                strict_after, clamp_tab_width(tab_width_arg)))

(***************************************************************************)
(* Specification of the calls of extract_segments.                         *)
(***************************************************************************)
ExtractPieces == {<<97>>, WIDE, <<ESC>>, SGR_UNDERLINE, SGR_RESET}

ExtractCalls ==
    [op : {"extract_segments"}, text : TextsOf(ExtractPieces, MaxPieces),
     before_end : 0..MaxCol, after_start : 0..MaxCol, after_len : 0..MaxCol,
     strict_after : BOOLEAN, tab_width : {None}]

InitExtract == pc = "ready" /\ call \in ExtractCalls /\ ret = <<>> /\ loop = <<>>

ExtractSegments ==
    /\ pc = "ready"
    /\ call.op = "extract_segments"
    /\ ret' = extract_segments(call.text, call.before_end, call.after_start, call.after_len,
                               call.strict_after, call.tab_width)
    /\ pc' = "done"
    /\ UNCHANGED <<call, loop>>

NextExtract == ExtractSegments

SpecExtract == InitExtract /\ [][NextExtract]_vars

ExtractDone == pc = "done" /\ call.op = "extract_segments"

\* The cells of a plain run as items, the first at column col.
RECURSIVE CellItems(_, _, _)
CellItems(cells, k, col) ==
    IF k > Len(cells) THEN <<>>
    ELSE <<[units |-> cells[k].units, w |-> cells[k].w, col |-> col, cell |-> TRUE]>>
             \o CellItems(cells, k + 1, col + cells[k].w)

\* The line from i on as items in order: each recognised escape sequence, each ESC that
\* starts none, and each cell, with the column at which it stands.
RECURSIVE LineItems(_, _, _, _)
LineItems(line, i, col, tab_width) ==
    IF i > Len(line) THEN <<>>
    ELSE IF line[i] = ESC THEN
        LET n == Max(ansi_seq_len_u16(line, i), 1)
        IN  <<[units |-> SubSeq(line, i, i + n - 1), w |-> 0, col |-> col, cell |-> FALSE]>>
                \o LineItems(line, i + n, col, tab_width)
    ELSE
        LET seg == SubSeq(line, i, SegEnd(line, i) - 1)
        IN  CellItems(IF IsAsciiSeg(seg) THEN AsciiCells(seg, tab_width)
                      ELSE for_each_grapheme_u16_slow(seg, tab_width), 1, col)
                \o LineItems(line, i + Len(seg), col + visible_width_u16(seg, tab_width),
                             tab_width)

CallItems == LineItems(call.text, 1, 0, clamp_tab_width(call.tab_width))

\* The item stands in the columns [after_start, after_start + after_len), past the
\* columns of before, and as a cell it ends inside them if strict_after is set.
InAfterColumns(item) ==
    /\ item.col >= call.after_start
    /\ item.col < call.after_start + call.after_len
    /\ item.col >= call.before_end
    /\ item.cell /\ call.strict_after => item.col + item.w <= call.after_start + call.after_len

\* The first cell among items from j on that is copied into after (0: none).
RECURSIVE FirstAfterCell(_, _)
FirstAfterCell(items, j) ==
    IF j > Len(items) THEN 0
    ELSE IF items[j].cell /\ InAfterColumns(items[j]) THEN j
    ELSE FirstAfterCell(items, j + 1)

UnitsOf(items) == Flatten([j \in 1..Len(items) |-> items[j].units])

\* The serialization of the SGR state that the sequences before item first leave:
\* nothing if that state is the default one.
SynthesizedState(items, first) ==
    write_active_codes(update_state_from_text(UnitsOf(SubSeq(items, 1, first - 1)),
                                              AnsiState_new))

\* The cells and escapes of the after columns from item first on.
AfterItems(items, first) == SelectSeq(SubSeq(items, first, Len(items)), InAfterColumns)

\* after is the synthesized state followed by the items of its columns from first on.
AfterFrom(items, first) ==
    /\ first > 0
    /\ ret.after = build_utf16_string(SynthesizedState(items, first)
                                          \o UnitsOf(AfterItems(items, first)))

AfterOf(items) == AfterFrom(items, FirstAfterCell(items, 1))

SynthesizedFrom(items, first) ==
    /\ first > 1
    /\ SynthesizedState(items, first) # <<>>
    /\ \E j \in 1..(first - 1) : ~items[j].cell

SynthesizedIn(items) == SynthesizedFrom(items, FirstAfterCell(items, 1))

IsCellItem(item) == item.cell

StartsBeforeEnd(item) == item.cell /\ item.col < call.before_end

\* The cells of before are the cells of the line that start in the columns
\* [0, before_end).
BeforeHasItsCells ==
    UnitsOf(SelectSeq(LineItems(ret.before, 1, 0, clamp_tab_width(call.tab_width)),
                      IsCellItem))
        = UnitsOf(SelectSeq(CallItems, StartsBeforeEnd))

\* C18: whatever after_start and after_len are, the before segment of extract_segments
\* has exactly the cells of the line in the columns [0, before_end), every cell that
\* starts before before_end among them, and before_width is at most before_end.
C18_BeforeColumns ==
    ExtractDone => BeforeHasItsCells /\ ret.before_width <= call.before_end

(***************************************************************************)
(* Key decoding (keys.rs). Input and key ids are sequences of bytes; an    *)
(* Option field of a parsed sequence is <<>> (None) or <<v>> (Some(v)).    *)
(***************************************************************************)
LOCK_MASK == 192
ARROW_UP == -1
ARROW_DOWN == -2
ARROW_RIGHT == -3
ARROW_LEFT == -4
FUNC_DELETE == -10
FUNC_INSERT == -11
FUNC_PAGE_UP == -12
FUNC_PAGE_DOWN == -13
FUNC_HOME == -14
FUNC_END == -15
FUNC_CLEAR == -16
FUNC_F1 == -20
FUNC_F2 == -21
FUNC_F3 == -22
FUNC_F4 == -23
FUNC_F5 == -24
FUNC_F6 == -25
FUNC_F7 == -26
FUNC_F8 == -27
FUNC_F9 == -28
FUNC_F10 == -29
FUNC_F11 == -30
FUNC_F12 == -31
CP_ESCAPE == 27
CP_TAB == 9
CP_ENTER == 13
CP_SPACE == 32
CP_BACKSPACE == 127
CP_KP_ENTER == 57414
CP_KP_0 == 57399
CP_KP_1 == 57400
CP_KP_2 == 57401
CP_KP_3 == 57402
CP_KP_4 == 57403
CP_KP_5 == 57404
CP_KP_6 == 57405
CP_KP_7 == 57406
CP_KP_8 == 57407
CP_KP_9 == 57408
CP_KP_DECIMAL == 57409
MOD_SHIFT == 1
MOD_ALT == 2
MOD_CTRL == 4

\* m & LOCK_MASK: the CapsLock and NumLock bits of m.
LockBits(m) == ((m \div 64) % 4) * 64

\* m & !LOCK_MASK.
ClearLocks(m) == m - LockBits(m)

IsAsciiDigit(b) == b \in 48..57

IsAsciiAlphabetic(b) == b \in 65..90 \/ b \in 97..122

IsAsciiGraphic(b) == b \in 33..126

ToAsciiLowercase(b) == IF b \in 65..90 THEN b + 32 ELSE b

ToAsciiUppercase(b) == IF b \in 97..122 THEN b - 32 ELSE b

LowerStr(s) == [k \in 1..Len(s) |-> ToAsciiLowercase(s[k])]

eq_ignore_ascii_case(a, b) == LowerStr(a) = LowerStr(b)

IsWhitespace(b) == b \in {9, 10, 11, 12, 13, 32}

RECURSIVE TrimStart(_)
TrimStart(s) == IF s # <<>> /\ IsWhitespace(s[1]) THEN TrimStart(Tail(s)) ELSE s

RECURSIVE TrimEnd(_)
TrimEnd(s) ==
    IF s # <<>> /\ IsWhitespace(s[Len(s)]) THEN TrimEnd(SubSeq(s, 1, Len(s) - 1)) ELSE s

\* str::trim for the ASCII key ids of the model.
trim(s) == TrimEnd(TrimStart(s))

\* str::split('+') from position i on, the current part starting at part_start.
RECURSIVE SplitPlus(_, _, _)
SplitPlus(s, part_start, i) ==
    IF i > Len(s) THEN <<SubSeq(s, part_start, Len(s))>>
    ELSE IF s[i] = 43 THEN <<SubSeq(s, part_start, i - 1)>> \o SplitPlus(s, i + 1, i + 1)
    ELSE SplitPlus(s, part_start, i + 1)

\* The index after the digits that start at idx, before end.
RECURSIVE DigitsEnd(_, _, _)
DigitsEnd(bytes, idx, end) ==
    IF idx < end /\ IsAsciiDigit(bytes[idx]) THEN DigitsEnd(bytes, idx + 1, end) ELSE idx

\* The u32 value of the digits in [idx, stop), from value on; None when checked_mul or
\* checked_add overflows (above 4294967295).
RECURSIVE DigitsValue(_, _, _, _)
DigitsValue(bytes, idx, stop, value) ==
    IF idx >= stop THEN value
    ELSE IF value > 429496729 \/ (value = 429496729 /\ bytes[idx] - 48 > 5) THEN None
    ELSE DigitsValue(bytes, idx + 1, stop, value * 10 + (bytes[idx] - 48))

\* parse_digits(bytes, idx, end): ok is FALSE for None. Indices count from 1, end is
\* the index after the last byte read.
ParsedDigits(value, next_idx) ==
    [ok |-> value # None, value |-> value, idx |-> next_idx]

parse_digits(bytes, idx, end) ==
    IF idx >= end \/ ~IsAsciiDigit(bytes[idx]) THEN [ok |-> FALSE, value |-> 0, idx |-> idx]
    ELSE ParsedDigits(DigitsValue(bytes, idx, DigitsEnd(bytes, idx, end), 0),
                      DigitsEnd(bytes, idx, end))

\* parse_optional_digits: the value as an Option, and the index to go on from.
OptionalDigits(d, idx) ==
    IF d.ok THEN [value |-> <<d.value>>, idx |-> d.idx] ELSE [value |-> <<>>, idx |-> idx]

parse_optional_digits(bytes, idx, end) == OptionalDigits(parse_digits(bytes, idx, end), idx)

\* i32::try_from(v).ok() as an Option.
I32TryFrom(v) == IF v <= 2147483647 THEN <<v>> ELSE <<>>

(***************************************************************************)
(* parse_modify_other_keys: CSI 27 ; modifiers ; keycode [~].              *)
(***************************************************************************)
NoModifyOtherKeys == [ok |-> FALSE, modifier |-> 0, keycode |-> 0]

\* After the keycode digits k, read behind the modifier digits m.
ModifyOtherKeysResult(m, k, end) ==
    IF ~k.ok \/ k.idx # end \/ m.value = 0 \/ I32TryFrom(k.value) = <<>>
    THEN NoModifyOtherKeys
    ELSE [ok |-> TRUE, modifier |-> m.value - 1, keycode |-> k.value]

\* After the modifier digits m.
ModifyOtherKeysKeycode(bytes, m, end) ==
    IF ~m.ok \/ m.idx >= end \/ bytes[m.idx] # 59 THEN NoModifyOtherKeys
    ELSE ModifyOtherKeysResult(m, parse_digits(bytes, m.idx + 1, end), end)

ModifyOtherKeysFields(bytes, end) ==
    IF end <= 6 THEN NoModifyOtherKeys
    ELSE ModifyOtherKeysKeycode(bytes, parse_digits(bytes, 6, end), end)

parse_modify_other_keys(bytes) ==
    IF Len(bytes) < 7 \/ ~IsPrefix(<<27, 91, 50, 55, 59>>, bytes) THEN NoModifyOtherKeys
    ELSE ModifyOtherKeysFields(bytes, IF bytes[Len(bytes)] = 126 THEN Len(bytes)
                                      ELSE Len(bytes) + 1)

(***************************************************************************)
(* Kitty protocol parsing. A parse in progress holds idx; end is the index *)
(* of the final byte.                                                      *)
(***************************************************************************)
NoKitty ==
    [ok |-> FALSE, idx |-> 0, codepoint |-> 0, shifted_key |-> <<>>, base_layout_key |-> <<>>,
     text_codepoint |-> <<>>, text_count |-> 0, mod_value |-> 1, modifier |-> 0,
     event_type |-> <<>>]

\* unicode-key-code, from its digits d.
CsiUKeyCode(d) ==
    IF ~d.ok \/ I32TryFrom(d.value) = <<>> THEN NoKitty
    ELSE [NoKitty EXCEPT !.ok = TRUE, !.idx = d.idx, !.codepoint = d.value]

\* The base layout key behind the second ':', from its digits d.
CsiUBaseLayout(p, d) ==
    IF ~d.ok \/ I32TryFrom(d.value) = <<>> THEN NoKitty
    ELSE [p EXCEPT !.base_layout_key = <<d.value>>, !.idx = d.idx]

\* The shifted key o behind the first ':', and the base layout key if one follows.
CsiUShifted(p, o, bytes, end) ==
    IF o.idx < end /\ bytes[o.idx] = 58
    THEN CsiUBaseLayout([p EXCEPT !.shifted_key = o.value],
                        parse_digits(bytes, o.idx + 1, end))
    ELSE [p EXCEPT !.shifted_key = o.value, !.idx = o.idx]

\* :alternate-key-codes (shifted[:base_layout]).
CsiUAlternates(p, bytes, end) ==
    IF p.ok /\ p.idx < end /\ bytes[p.idx] = 58
    THEN CsiUShifted(p, parse_optional_digits(bytes, p.idx + 1, end), bytes, end)
    ELSE p

\* The event type behind ':', from its digits d.
CsiUEventType(p, d) ==
    IF ~d.ok THEN NoKitty ELSE [p EXCEPT !.event_type = <<d.value>>, !.idx = d.idx]

\* The optional :event-type behind a modifiers field.
CsiUEvent(p, bytes, end) ==
    IF p.ok /\ p.idx < end /\ bytes[p.idx] = 58
    THEN CsiUEventType(p, parse_digits(bytes, p.idx + 1, end))
    ELSE p

\* The digits d of the modifiers field at idx; the field may be empty.
CsiUModValue(p, d, idx) ==
    IF d.ok THEN [p EXCEPT !.mod_value = d.value, !.idx = d.idx]
    ELSE IF d.value = None THEN NoKitty
    ELSE [p EXCEPT !.mod_value = 1, !.idx = idx]

\* ;modifiers:event-type.
CsiUModifiers(p, bytes, end) ==
    IF p.ok /\ p.idx < end /\ bytes[p.idx] = 59
    THEN CsiUEvent(CsiUModValue(p, parse_digits(bytes, p.idx + 1, end), p.idx + 1),
                   bytes, end)
    ELSE p

\* char::from_u32(cp).is_some().
IsChar(cp) == cp <= 1114111 /\ cp \notin 55296..57343

\* One codepoint of the text field, from its digits d: only a first one is kept.
CsiUTextCodepoint(p, d, bytes, end) ==
    IF ~d.ok THEN NoKitty
    ELSE [p EXCEPT !.text_count = @ + 1,
                   !.text_codepoint = IF p.text_count = 0
                                      THEN (IF d.value >= 32 /\ I32TryFrom(d.value) # <<>>
                                               /\ IsChar(d.value)
                                            THEN <<d.value>> ELSE @)
                                      ELSE <<>>,
                   !.idx = IF d.idx < end /\ bytes[d.idx] = 58 THEN d.idx + 1 ELSE d.idx]

\* The loop over the text field: digits(:digits)*.
RECURSIVE CsiUTextLoop(_, _, _)
CsiUTextLoop(p, bytes, end) ==
    IF ~p.ok \/ p.idx >= end THEN p
    ELSE IF bytes[p.idx] = 58 THEN CsiUTextLoop([p EXCEPT !.idx = @ + 1], bytes, end)
    ELSE CsiUTextLoop(CsiUTextCodepoint(p, parse_digits(bytes, p.idx, end), bytes, end),
                      bytes, end)

\* ;text-as-codepoints.
CsiUText(p, bytes, end) ==
    IF p.ok /\ p.idx < end /\ bytes[p.idx] = 59
    THEN CsiUTextLoop([p EXCEPT !.idx = @ + 1], bytes, end)
    ELSE p

\* The end of a parser that takes any mod_value.
KittyFinishUnchecked(p, end) ==
    IF ~p.ok \/ p.idx # end THEN NoKitty
    ELSE [p EXCEPT !.modifier = p.mod_value - 1]

\* The end of the three parsers: the fields must reach end, and mod_value is not 0.
KittyFinish(p, end) ==
    IF ~p.ok \/ p.idx # end \/ p.mod_value = 0 THEN NoKitty
    ELSE [p EXCEPT !.modifier = p.mod_value - 1]

parse_csi_u(bytes) ==
    KittyFinish(CsiUText(CsiUModifiers(CsiUAlternates(CsiUKeyCode(
                    parse_digits(bytes, 3, Len(bytes))), bytes, Len(bytes)),
                    bytes, Len(bytes)), bytes, Len(bytes)),
                Len(bytes))

\* The modifier digits d of CSI 1;mod <letter> and of CSI number;mod ~.
KittyModValue(p, d) ==
    IF ~d.ok THEN NoKitty ELSE [p EXCEPT !.mod_value = d.value, !.idx = d.idx]

Csi1LetterCode(b) ==
    CASE b = 65 -> ARROW_UP
      [] b = 66 -> ARROW_DOWN
      [] b = 67 -> ARROW_RIGHT
      [] b = 68 -> ARROW_LEFT
      [] b = 72 -> FUNC_HOME
      [] b = 70 -> FUNC_END
      [] b = 69 -> FUNC_CLEAR
      [] b = 80 -> FUNC_F1
      [] b = 81 -> FUNC_F2
      [] b = 82 -> FUNC_F3
      [] b = 83 -> FUNC_F4
      [] OTHER -> 0

\* The letter must be the last byte.
Csi1LetterFinish(p, bytes) ==
    IF ~p.ok \/ p.idx # Len(bytes) \/ p.mod_value = 0 \/ Csi1LetterCode(bytes[p.idx]) = 0
    THEN NoKitty
    ELSE [p EXCEPT !.codepoint = Csi1LetterCode(bytes[p.idx]), !.modifier = p.mod_value - 1]

parse_csi_1_letter(bytes) ==
    IF ~IsPrefix(<<27, 91, 49, 59>>, bytes) THEN NoKitty
    ELSE Csi1LetterFinish(
             CsiUEvent(KittyModValue([NoKitty EXCEPT !.ok = TRUE],
                                     parse_digits(bytes, 5, Len(bytes) + 1)),
                       bytes, Len(bytes) + 1),
             bytes)

FunctionalCode(key_num) ==
    CASE key_num = 2 -> FUNC_INSERT
      [] key_num = 3 -> FUNC_DELETE
      [] key_num = 5 -> FUNC_PAGE_UP
      [] key_num = 6 -> FUNC_PAGE_DOWN
      [] key_num \in {1, 7} -> FUNC_HOME
      [] key_num \in {4, 8} -> FUNC_END
      [] key_num \in 11..15 -> FUNC_F1 - (key_num - 11)
      [] key_num \in 17..21 -> FUNC_F6 - (key_num - 17)
      [] key_num \in 23..24 -> FUNC_F11 - (key_num - 23)
      [] OTHER -> 0

\* The key number, from its digits d.
FunctionalKeyNum(d) ==
    IF ~d.ok THEN NoKitty ELSE [NoKitty EXCEPT !.ok = TRUE, !.idx = d.idx, !.codepoint = d.value]

\* The optional ;modifiers of CSI number ~.
FunctionalModifiers(p, bytes, end) ==
    IF p.ok /\ p.idx < end /\ bytes[p.idx] = 59
    THEN KittyModValue(p, parse_digits(bytes, p.idx + 1, end))
    ELSE p

\* The key number is replaced by the code of the key, if it has one.
FunctionalFinish(p) ==
    IF ~p.ok \/ FunctionalCode(p.codepoint) = 0 THEN NoKitty
    ELSE [p EXCEPT !.codepoint = FunctionalCode(p.codepoint)]

parse_functional(bytes) ==
    FunctionalFinish(KittyFinish(CsiUEvent(FunctionalModifiers(
                         FunctionalKeyNum(parse_digits(bytes, 3, Len(bytes))),
                         bytes, Len(bytes)), bytes, Len(bytes)),
                     Len(bytes)))

parse_kitty_sequence(bytes) ==
    IF Len(bytes) < 4 \/ bytes[1] # 27 \/ bytes[2] # 91 THEN NoKitty
    ELSE IF bytes[Len(bytes)] = 117 THEN parse_csi_u(bytes)
    ELSE IF bytes[Len(bytes)] = 126 THEN parse_functional(bytes)
    ELSE IF bytes[Len(bytes)] \in {65, 66, 67, 68, 69, 70, 72, 80, 81, 82, 83}
    THEN parse_csi_1_letter(bytes)
    ELSE NoKitty

(***************************************************************************)
(* Key ids: parse_key_id.                                                  *)
(***************************************************************************)
\* One part of a key id between '+' signs: "ctrl", "shift" and "alt" in any case set
\* a modifier bit, another non-empty part is the key (the last one wins).
KeyIdPart(id, p) ==
    IF p = <<>> THEN id
    ELSE IF eq_ignore_ascii_case(p, <<99, 116, 114, 108>>) THEN [id EXCEPT !.modifier = SetBit(@, MOD_CTRL)]
    ELSE IF eq_ignore_ascii_case(p, <<115, 104, 105, 102, 116>>) THEN [id EXCEPT !.modifier = SetBit(@, MOD_SHIFT)]
    ELSE IF eq_ignore_ascii_case(p, <<97, 108, 116>>) THEN [id EXCEPT !.modifier = SetBit(@, MOD_ALT)]
    ELSE [id EXCEPT !.key = p]

RECURSIVE KeyIdParts(_, _, _)
KeyIdParts(id, parts, k) ==
    IF k > Len(parts) THEN id
    ELSE KeyIdParts(KeyIdPart(id, trim(parts[k])), parts, k + 1)

\* The aliases "plus" (for "+") and "esc"; no key at all is None.
KeyIdAlias(id) ==
    IF id.key = <<>> THEN [id EXCEPT !.ok = FALSE]
    ELSE IF eq_ignore_ascii_case(id.key, <<112, 108, 117, 115>>) THEN [id EXCEPT !.key = <<43>>]
    ELSE IF eq_ignore_ascii_case(id.key, <<101, 115, 99>>) THEN [id EXCEPT !.key = <<101, 115, 99>>]
    ELSE id

\* The trimmed id s: "+" alone and a trailing "++" name the plus key.
KeyIdOf(s) ==
    IF s = <<>> THEN [ok |-> FALSE, key |-> <<>>, modifier |-> 0]
    ELSE IF s = <<43>> THEN [ok |-> TRUE, key |-> <<43>>, modifier |-> 0]
    ELSE IF IsSuffix(<<43, 43>>, s)
    THEN KeyIdAlias(KeyIdParts([ok |-> TRUE, key |-> <<43>>, modifier |-> 0],
                               SplitPlus(SubSeq(s, 1, Len(s) - 2), 1, 1), 1))
    ELSE KeyIdAlias(KeyIdParts([ok |-> TRUE, key |-> <<>>, modifier |-> 0],
                               SplitPlus(s, 1, 1), 1))

parse_key_id(key_id) == KeyIdOf(trim(key_id))

raw_ctrl_char(letter) == (ToAsciiLowercase(letter) - 97) + 1

\* ctrl_symbol_to_byte as an Option.
ctrl_symbol_to_byte(symbol) ==
    IF symbol \in {64, 91, 92, 93, 94, 95} THEN <<symbol - 64>>
    ELSE IF symbol = 45 THEN <<31>>
    ELSE <<>>

\* map_keypad_nav as an Option.
map_keypad_nav(codepoint) ==
    CASE codepoint = CP_KP_0 -> <<FUNC_INSERT>>
      [] codepoint = CP_KP_1 -> <<FUNC_END>>
      [] codepoint = CP_KP_2 -> <<ARROW_DOWN>>
      [] codepoint = CP_KP_3 -> <<FUNC_PAGE_DOWN>>
      [] codepoint = CP_KP_4 -> <<ARROW_LEFT>>
      [] codepoint = CP_KP_5 -> <<FUNC_CLEAR>>
      [] codepoint = CP_KP_6 -> <<ARROW_RIGHT>>
      [] codepoint = CP_KP_7 -> <<FUNC_HOME>>
      [] codepoint = CP_KP_8 -> <<ARROW_UP>>
      [] codepoint = CP_KP_9 -> <<FUNC_PAGE_UP>>
      [] codepoint = CP_KP_DECIMAL -> <<FUNC_DELETE>>
      [] OTHER -> <<>>

is_symbol_key(cp) ==
    cp \in {96, 34, 45, 61, 91, 93, 92, 59, 39, 44, 46, 47, 33, 64, 35, 36, 37, 94, 38, 42,
            40, 41, 95, 43, 124, 126, 123, 125, 58, 60, 62, 63}

(***************************************************************************)
(* Legacy sequences: pairs of the input bytes and the key id.              *)
(***************************************************************************)
LEGACY_SEQUENCES == {
    <<<<27, 79, 65>>, <<117, 112>>>>,  \* ESC OA => up
    <<<<27, 79, 66>>, <<100, 111, 119, 110>>>>,  \* ESC OB => down
    <<<<27, 79, 67>>, <<114, 105, 103, 104, 116>>>>,  \* ESC OC => right
    <<<<27, 79, 68>>, <<108, 101, 102, 116>>>>,  \* ESC OD => left
    <<<<27, 91, 65>>, <<117, 112>>>>,  \* ESC [A => up
    <<<<27, 91, 66>>, <<100, 111, 119, 110>>>>,  \* ESC [B => down
    <<<<27, 91, 67>>, <<114, 105, 103, 104, 116>>>>,  \* ESC [C => right
    <<<<27, 91, 68>>, <<108, 101, 102, 116>>>>,  \* ESC [D => left
    <<<<27, 79, 72>>, <<104, 111, 109, 101>>>>,  \* ESC OH => home
    <<<<27, 79, 70>>, <<101, 110, 100>>>>,  \* ESC OF => end
    <<<<27, 91, 72>>, <<104, 111, 109, 101>>>>,  \* ESC [H => home
    <<<<27, 91, 70>>, <<101, 110, 100>>>>,  \* ESC [F => end
    <<<<27, 91, 49, 126>>, <<104, 111, 109, 101>>>>,  \* ESC [1~ => home
    <<<<27, 91, 55, 126>>, <<104, 111, 109, 101>>>>,  \* ESC [7~ => home
    <<<<27, 91, 52, 126>>, <<101, 110, 100>>>>,  \* ESC [4~ => end
    <<<<27, 91, 56, 126>>, <<101, 110, 100>>>>,  \* ESC [8~ => end
    <<<<27, 91, 69>>, <<99, 108, 101, 97, 114>>>>,  \* ESC [E => clear
    <<<<27, 79, 69>>, <<99, 108, 101, 97, 114>>>>,  \* ESC OE => clear
    <<<<27, 79, 101>>, <<99, 116, 114, 108, 43, 99, 108, 101, 97, 114>>>>,  \* ESC Oe => ctrl+clear
    <<<<27, 91, 101>>, <<115, 104, 105, 102, 116, 43, 99, 108, 101, 97, 114>>>>,  \* ESC [e => shift+clear
    <<<<27, 91, 50, 126>>, <<105, 110, 115, 101, 114, 116>>>>,  \* ESC [2~ => insert
    <<<<27, 91, 50, 36>>, <<115, 104, 105, 102, 116, 43, 105, 110, 115, 101, 114, 116>>>>,  \* ESC [2$ => shift+insert
    <<<<27, 91, 50, 94>>, <<99, 116, 114, 108, 43, 105, 110, 115, 101, 114, 116>>>>,  \* ESC [2^ => ctrl+insert
    <<<<27, 91, 51, 126>>, <<100, 101, 108, 101, 116, 101>>>>,  \* ESC [3~ => delete
    <<<<27, 91, 51, 36>>, <<115, 104, 105, 102, 116, 43, 100, 101, 108, 101, 116, 101>>>>,  \* ESC [3$ => shift+delete
    <<<<27, 91, 51, 94>>, <<99, 116, 114, 108, 43, 100, 101, 108, 101, 116, 101>>>>,  \* ESC [3^ => ctrl+delete
    <<<<27, 91, 53, 126>>, <<112, 97, 103, 101, 85, 112>>>>,  \* ESC [5~ => pageUp
    <<<<27, 91, 54, 126>>, <<112, 97, 103, 101, 68, 111, 119, 110>>>>,  \* ESC [6~ => pageDown
    <<<<27, 91, 91, 53, 126>>, <<112, 97, 103, 101, 85, 112>>>>,  \* ESC [[5~ => pageUp
    <<<<27, 91, 91, 54, 126>>, <<112, 97, 103, 101, 68, 111, 119, 110>>>>,  \* ESC [[6~ => pageDown
    <<<<27, 91, 97>>, <<115, 104, 105, 102, 116, 43, 117, 112>>>>,  \* ESC [a => shift+up
    <<<<27, 91, 98>>, <<115, 104, 105, 102, 116, 43, 100, 111, 119, 110>>>>,  \* ESC [b => shift+down
    <<<<27, 91, 99>>, <<115, 104, 105, 102, 116, 43, 114, 105, 103, 104, 116>>>>,  \* ESC [c => shift+right
    <<<<27, 91, 100>>, <<115, 104, 105, 102, 116, 43, 108, 101, 102, 116>>>>,  \* ESC [d => shift+left
    <<<<27, 79, 97>>, <<99, 116, 114, 108, 43, 117, 112>>>>,  \* ESC Oa => ctrl+up
    <<<<27, 79, 98>>, <<99, 116, 114, 108, 43, 100, 111, 119, 110>>>>,  \* ESC Ob => ctrl+down
    <<<<27, 79, 99>>, <<99, 116, 114, 108, 43, 114, 105, 103, 104, 116>>>>,  \* ESC Oc => ctrl+right
    <<<<27, 79, 100>>, <<99, 116, 114, 108, 43, 108, 101, 102, 116>>>>,  \* ESC Od => ctrl+left
    <<<<27, 91, 53, 36>>, <<115, 104, 105, 102, 116, 43, 112, 97, 103, 101, 85, 112>>>>,  \* ESC [5$ => shift+pageUp
    <<<<27, 91, 54, 36>>, <<115, 104, 105, 102, 116, 43, 112, 97, 103, 101, 68, 111, 119, 110>>>>,  \* ESC [6$ => shift+pageDown
    <<<<27, 91, 55, 36>>, <<115, 104, 105, 102, 116, 43, 104, 111, 109, 101>>>>,  \* ESC [7$ => shift+home
    <<<<27, 91, 56, 36>>, <<115, 104, 105, 102, 116, 43, 101, 110, 100>>>>,  \* ESC [8$ => shift+end
    <<<<27, 91, 53, 94>>, <<99, 116, 114, 108, 43, 112, 97, 103, 101, 85, 112>>>>,  \* ESC [5^ => ctrl+pageUp
    <<<<27, 91, 54, 94>>, <<99, 116, 114, 108, 43, 112, 97, 103, 101, 68, 111, 119, 110>>>>,  \* ESC [6^ => ctrl+pageDown
    <<<<27, 91, 55, 94>>, <<99, 116, 114, 108, 43, 104, 111, 109, 101>>>>,  \* ESC [7^ => ctrl+home
    <<<<27, 91, 56, 94>>, <<99, 116, 114, 108, 43, 101, 110, 100>>>>,  \* ESC [8^ => ctrl+end
    <<<<27, 79, 80>>, <<102, 49>>>>,  \* ESC OP => f1
    <<<<27, 79, 81>>, <<102, 50>>>>,  \* ESC OQ => f2
    <<<<27, 79, 82>>, <<102, 51>>>>,  \* ESC OR => f3
    <<<<27, 79, 83>>, <<102, 52>>>>,  \* ESC OS => f4
    <<<<27, 91, 49, 49, 126>>, <<102, 49>>>>,  \* ESC [11~ => f1
    <<<<27, 91, 49, 50, 126>>, <<102, 50>>>>,  \* ESC [12~ => f2
    <<<<27, 91, 49, 51, 126>>, <<102, 51>>>>,  \* ESC [13~ => f3
    <<<<27, 91, 49, 52, 126>>, <<102, 52>>>>,  \* ESC [14~ => f4
    <<<<27, 91, 91, 65>>, <<102, 49>>>>,  \* ESC [[A => f1
    <<<<27, 91, 91, 66>>, <<102, 50>>>>,  \* ESC [[B => f2
    <<<<27, 91, 91, 67>>, <<102, 51>>>>,  \* ESC [[C => f3
    <<<<27, 91, 91, 68>>, <<102, 52>>>>,  \* ESC [[D => f4
    <<<<27, 91, 91, 69>>, <<102, 53>>>>,  \* ESC [[E => f5
    <<<<27, 91, 49, 53, 126>>, <<102, 53>>>>,  \* ESC [15~ => f5
    <<<<27, 91, 49, 55, 126>>, <<102, 54>>>>,  \* ESC [17~ => f6
    <<<<27, 91, 49, 56, 126>>, <<102, 55>>>>,  \* ESC [18~ => f7
    <<<<27, 91, 49, 57, 126>>, <<102, 56>>>>,  \* ESC [19~ => f8
    <<<<27, 91, 50, 48, 126>>, <<102, 57>>>>,  \* ESC [20~ => f9
    <<<<27, 91, 50, 49, 126>>, <<102, 49, 48>>>>,  \* ESC [21~ => f10
    <<<<27, 91, 50, 51, 126>>, <<102, 49, 49>>>>,  \* ESC [23~ => f11
    <<<<27, 91, 50, 52, 126>>, <<102, 49, 50>>>>,  \* ESC [24~ => f12
    <<<<27, 98>>, <<97, 108, 116, 43, 108, 101, 102, 116>>>>,  \* ESC b => alt+left
    <<<<27, 102>>, <<97, 108, 116, 43, 114, 105, 103, 104, 116>>>>,  \* ESC f => alt+right
    <<<<27, 112>>, <<97, 108, 116, 43, 117, 112>>>>,  \* ESC p => alt+up
    <<<<27, 110>>, <<97, 108, 116, 43, 100, 111, 119, 110>>>>  \* ESC n => alt+down
}

matches_legacy_key(bytes, key) == <<bytes, key>> \in LEGACY_SEQUENCES

\* The keys that have "shift+" and "ctrl+" legacy sequences: up, down, right, left,
\* clear, insert, delete, pageUp, pageDown, home, end.
LegacyModifierKeys ==
    {<<117, 112>>, <<100, 111, 119, 110>>, <<114, 105, 103, 104, 116>>, <<108, 101, 102, 116>>, <<99, 108, 101, 97, 114>>, <<105, 110, 115, 101, 114, 116>>, <<100, 101, 108, 101, 116, 101>>, <<112, 97, 103, 101, 85, 112>>,
     <<112, 97, 103, 101, 68, 111, 119, 110>>, <<104, 111, 109, 101>>, <<101, 110, 100>>}

\* "shift+" and "ctrl+" before the key.
matches_legacy_modifier_sequence(bytes, key, modifier) ==
    IF modifier = MOD_SHIFT /\ key \in LegacyModifierKeys
    THEN matches_legacy_key(bytes, <<115, 104, 105, 102, 116, 43>> \o key)
    ELSE IF modifier = MOD_CTRL /\ key \in LegacyModifierKeys
    THEN matches_legacy_key(bytes, <<99, 116, 114, 108, 43>> \o key)
    ELSE FALSE

(***************************************************************************)
(* matches_key.                                                            *)
(***************************************************************************)
\* A keypad code is read as its navigation key unless the sequence carries text.
KeypadNav(codepoint, text_codepoint) ==
    IF text_codepoint = <<>> /\ map_keypad_nav(codepoint) # <<>>
    THEN map_keypad_nav(codepoint)[1]
    ELSE codepoint

\* The base layout key stands in only for a key that is neither an ASCII letter nor a
\* known symbol.
KittyCodepointMatches(parsed_codepoint, parsed_base, codepoint) ==
    \/ parsed_codepoint = codepoint
    \/ /\ parsed_base # <<>>
       /\ parsed_base[1] = codepoint
       /\ ~IsAsciiAlphabetic(parsed_codepoint)
       /\ ~is_symbol_key(parsed_codepoint)

\* The closure kitty_matches over the parsed Kitty sequence p: the lock bits are
\* cleared on both sides.
kitty_matches(p, codepoint, m) ==
    /\ p.ok
    /\ ClearLocks(p.modifier) = ClearLocks(m)
    /\ KittyCodepointMatches(
           KeypadNav(p.codepoint, p.text_codepoint),
           IF p.base_layout_key = <<>> THEN <<>>
           ELSE <<KeypadNav(p.base_layout_key[1], p.text_codepoint)>>,
           codepoint)

\* The closure mok_matches over the parsed modifyOtherKeys sequence mok: the keycode and
\* the modifier as parsed.
mok_matches(mok, keycode, m) == mok.ok /\ mok.keycode = keycode /\ mok.modifier = m

MatchesEscape(bytes, modifier, p) ==
    IF modifier # 0 THEN FALSE
    ELSE bytes = <<27>> \/ kitty_matches(p, CP_ESCAPE, 0)

MatchesSpace(bytes, modifier, p, mok, kitty_protocol_active) ==
    IF modifier = MOD_CTRL /\ bytes = <<0>> THEN TRUE
    ELSE IF modifier = MOD_ALT /\ ~kitty_protocol_active /\ bytes = <<27, 32>> THEN TRUE
    ELSE IF modifier = 0 THEN bytes = <<32>> \/ kitty_matches(p, CP_SPACE, 0)
    ELSE kitty_matches(p, CP_SPACE, modifier) \/ mok_matches(mok, CP_SPACE, modifier)

MatchesTab(bytes, modifier, p, mok) ==
    IF modifier = MOD_SHIFT
    THEN \/ bytes = <<27, 91, 90>>
         \/ kitty_matches(p, CP_TAB, MOD_SHIFT)
         \/ mok_matches(mok, CP_TAB, MOD_SHIFT)
    ELSE IF modifier = MOD_ALT /\ bytes = <<27, 9>> THEN TRUE
    ELSE IF modifier = 0 THEN bytes = <<9>> \/ kitty_matches(p, CP_TAB, 0)
    ELSE kitty_matches(p, CP_TAB, modifier) \/ mok_matches(mok, CP_TAB, modifier)

MatchesEnter(bytes, modifier, p, mok) ==
    IF modifier = MOD_ALT /\ bytes = <<27, 13>> THEN TRUE
    ELSE IF modifier = 0
    THEN \/ bytes = <<13>>
         \/ bytes = <<10>>
         \/ bytes = <<27, 79, 77>>
         \/ kitty_matches(p, CP_ENTER, 0)
         \/ kitty_matches(p, CP_KP_ENTER, 0)
    ELSE \/ kitty_matches(p, CP_ENTER, modifier)
         \/ kitty_matches(p, CP_KP_ENTER, modifier)
         \/ mok_matches(mok, CP_ENTER, modifier)
         \/ mok_matches(mok, CP_KP_ENTER, modifier)

MatchesBackspace(bytes, modifier, p, mok) ==
    IF modifier = MOD_ALT
    THEN \/ bytes = <<27, 127>>
         \/ bytes = <<27, 8>>
         \/ kitty_matches(p, CP_BACKSPACE, MOD_ALT)
         \/ mok_matches(mok, CP_BACKSPACE, MOD_ALT)
    ELSE IF modifier = 0
    THEN bytes = <<127>> \/ bytes = <<8>> \/ kitty_matches(p, CP_BACKSPACE, 0)
    ELSE kitty_matches(p, CP_BACKSPACE, modifier) \/ mok_matches(mok, CP_BACKSPACE, modifier)

\* insert, delete, clear, home, end, pageup and pagedown: name is the legacy key id and
\* code the sentinel of the key.
MatchesNavKey(bytes, name, code, modifier, p) ==
    IF modifier = 0 THEN matches_legacy_key(bytes, name) \/ kitty_matches(p, code, 0)
    ELSE \/ matches_legacy_modifier_sequence(bytes, name, modifier)
         \/ kitty_matches(p, code, modifier)

\* up and down: alt_letter is 'p' or 'n'.
MatchesVerticalArrow(bytes, name, code, alt_letter, modifier, p) ==
    IF modifier = MOD_ALT
    THEN bytes = <<27, alt_letter>> \/ kitty_matches(p, code, MOD_ALT)
    ELSE MatchesNavKey(bytes, name, code, modifier, p)

\* left and right: letter is 'D' or 'C', alt_letter 'B' or 'F'.
MatchesHorizontalArrow(bytes, name, code, letter, alt_letter, modifier, p, kitty_protocol_active) ==
    IF modifier = MOD_ALT
    THEN \/ bytes = <<27, 91, 49, 59, 51>> \o <<letter>>
         \/ (~kitty_protocol_active /\ bytes = <<27, alt_letter>>)
         \/ bytes = <<27, ToAsciiLowercase(alt_letter)>>
         \/ kitty_matches(p, code, MOD_ALT)
    ELSE IF modifier = MOD_CTRL
    THEN \/ bytes = <<27, 91, 49, 59, 53>> \o <<letter>>
         \/ matches_legacy_modifier_sequence(bytes, name, MOD_CTRL)
         \/ kitty_matches(p, code, MOD_CTRL)
    ELSE MatchesNavKey(bytes, name, code, modifier, p)

\* f_code as an Option: "f1".."f9" count up from FUNC_F1.
FCode(key) ==
    IF Len(key) = 2 /\ key[1] \in {102, 70} /\ key[2] \in 49..57
    THEN <<FUNC_F1 + (key[2] - 49)>>
    ELSE IF Len(key) = 3 /\ key[1] \in {102, 70} /\ key[2] = 49 /\ key[3] = 48
    THEN <<FUNC_F10>>
    ELSE IF Len(key) = 3 /\ key[1] \in {102, 70} /\ key[2] = 49 /\ key[3] = 49
    THEN <<FUNC_F11>>
    ELSE IF Len(key) = 3 /\ key[1] \in {102, 70} /\ key[2] = 49 /\ key[3] = 50
    THEN <<FUNC_F12>>
    ELSE <<>>

MatchesFunctionKey(bytes, key, cp, modifier, p) ==
    IF modifier = 0 THEN matches_legacy_key(bytes, key)
    ELSE kitty_matches(p, cp, modifier)

\* ctrl with the lowercased character ch.
MatchesCtrlChar(bytes, ch, p, mok) ==
    IF ch \in 97..122
    THEN IF bytes = <<raw_ctrl_char(ch)>> THEN TRUE
         ELSE mok_matches(mok, ch, MOD_CTRL) \/ kitty_matches(p, ch, MOD_CTRL)
    ELSE IF ctrl_symbol_to_byte(ch) # <<>> /\ bytes = ctrl_symbol_to_byte(ch) THEN TRUE
    ELSE mok_matches(mok, ch, MOD_CTRL) \/ kitty_matches(p, ch, MOD_CTRL)

\* A single-character key, ch lowercased.
MatchesCharLower(bytes, ch, modifier, p, mok, kitty_protocol_active) ==
    IF modifier = MOD_CTRL + MOD_ALT /\ ~kitty_protocol_active /\ ch \in 97..122
    THEN bytes = <<27, raw_ctrl_char(ch)>>
    ELSE IF modifier = MOD_ALT /\ ~kitty_protocol_active /\ ch \in 97..122
    THEN bytes = <<27, ch>>
    ELSE IF modifier = MOD_CTRL THEN MatchesCtrlChar(bytes, ch, p, mok)
    ELSE IF modifier = MOD_CTRL + MOD_SHIFT
    THEN \/ kitty_matches(p, ch, MOD_SHIFT + MOD_CTRL)
         \/ mok_matches(mok, ch, MOD_SHIFT + MOD_CTRL)
    ELSE IF modifier = MOD_SHIFT
    THEN IF ch \in 97..122 /\ bytes = <<ToAsciiUppercase(ch)>> THEN TRUE
         ELSE kitty_matches(p, ch, MOD_SHIFT) \/ mok_matches(mok, ch, MOD_SHIFT)
    ELSE IF modifier # 0
    THEN kitty_matches(p, ch, modifier) \/ mok_matches(mok, ch, modifier)
    ELSE bytes = <<ch>> \/ kitty_matches(p, ch, 0)

MatchesChar(bytes, ch, modifier, p, mok, kitty_protocol_active) ==
    IF ~IsAsciiGraphic(ch) THEN FALSE
    ELSE MatchesCharLower(bytes, ToAsciiLowercase(ch), modifier, p, mok,
                          kitty_protocol_active)

\* The keys after the named ones: function keys, then single characters.
MatchesOtherKey(bytes, key, modifier, p, mok, kitty_protocol_active) ==
    IF FCode(key) # <<>> THEN MatchesFunctionKey(bytes, key, FCode(key)[1], modifier, p)
    ELSE IF Len(key) = 1
    THEN MatchesChar(bytes, key[1], modifier, p, mok, kitty_protocol_active)
    ELSE FALSE

\* The named keys, compared without regard to case, in the order of the code.
MatchesParsedKey(bytes, key, modifier, p, mok, kitty_protocol_active) ==
    IF eq_ignore_ascii_case(key, <<101, 115, 99, 97, 112, 101>>) \/ eq_ignore_ascii_case(key, <<101, 115, 99>>)
    THEN MatchesEscape(bytes, modifier, p)
    ELSE IF eq_ignore_ascii_case(key, <<115, 112, 97, 99, 101>>)
    THEN MatchesSpace(bytes, modifier, p, mok, kitty_protocol_active)
    ELSE IF eq_ignore_ascii_case(key, <<116, 97, 98>>) THEN MatchesTab(bytes, modifier, p, mok)
    ELSE IF eq_ignore_ascii_case(key, <<101, 110, 116, 101, 114>>) \/ eq_ignore_ascii_case(key, <<114, 101, 116, 117, 114, 110>>)
    THEN MatchesEnter(bytes, modifier, p, mok)
    ELSE IF eq_ignore_ascii_case(key, <<98, 97, 99, 107, 115, 112, 97, 99, 101>>)
    THEN MatchesBackspace(bytes, modifier, p, mok)
    ELSE IF eq_ignore_ascii_case(key, <<105, 110, 115, 101, 114, 116>>)
    THEN MatchesNavKey(bytes, <<105, 110, 115, 101, 114, 116>>, FUNC_INSERT, modifier, p)
    ELSE IF eq_ignore_ascii_case(key, <<100, 101, 108, 101, 116, 101>>)
    THEN MatchesNavKey(bytes, <<100, 101, 108, 101, 116, 101>>, FUNC_DELETE, modifier, p)
    ELSE IF eq_ignore_ascii_case(key, <<99, 108, 101, 97, 114>>)
    THEN MatchesNavKey(bytes, <<99, 108, 101, 97, 114>>, FUNC_CLEAR, modifier, p)
    ELSE IF eq_ignore_ascii_case(key, <<104, 111, 109, 101>>)
    THEN MatchesNavKey(bytes, <<104, 111, 109, 101>>, FUNC_HOME, modifier, p)
    ELSE IF eq_ignore_ascii_case(key, <<101, 110, 100>>)
    THEN MatchesNavKey(bytes, <<101, 110, 100>>, FUNC_END, modifier, p)
    ELSE IF eq_ignore_ascii_case(key, <<112, 97, 103, 101, 117, 112>>)
    THEN MatchesNavKey(bytes, <<112, 97, 103, 101, 85, 112>>, FUNC_PAGE_UP, modifier, p)
    ELSE IF eq_ignore_ascii_case(key, <<112, 97, 103, 101, 100, 111, 119, 110>>)
    THEN MatchesNavKey(bytes, <<112, 97, 103, 101, 68, 111, 119, 110>>, FUNC_PAGE_DOWN, modifier, p)
    ELSE IF eq_ignore_ascii_case(key, <<117, 112>>)
    THEN MatchesVerticalArrow(bytes, <<117, 112>>, ARROW_UP, 112, modifier, p)
    ELSE IF eq_ignore_ascii_case(key, <<100, 111, 119, 110>>)
    THEN MatchesVerticalArrow(bytes, <<100, 111, 119, 110>>, ARROW_DOWN, 110, modifier, p)
    ELSE IF eq_ignore_ascii_case(key, <<108, 101, 102, 116>>)
    THEN MatchesHorizontalArrow(bytes, <<108, 101, 102, 116>>, ARROW_LEFT, 68, 66, modifier, p,
                                kitty_protocol_active)
    ELSE IF eq_ignore_ascii_case(key, <<114, 105, 103, 104, 116>>)
    THEN MatchesHorizontalArrow(bytes, <<114, 105, 103, 104, 116>>, ARROW_RIGHT, 67, 70, modifier, p,
                                kitty_protocol_active)
    ELSE MatchesOtherKey(bytes, key, modifier, p, mok, kitty_protocol_active)

\* The key id parsed, and the input parsed once as a Kitty sequence and once as
\* modifyOtherKeys.
MatchesKeyId(bytes, id, p, mok, kitty_protocol_active) ==
    IF ~id.ok THEN FALSE
    ELSE MatchesParsedKey(bytes, id.key, id.modifier, p, mok, kitty_protocol_active)

matches_key_inner(bytes, key_id, kitty_protocol_active) ==
    MatchesKeyId(bytes, parse_key_id(key_id), parse_kitty_sequence(bytes),
                 parse_modify_other_keys(bytes), kitty_protocol_active)

\* data and key_id are ASCII strings here, their bytes the strings themselves.
matches_key(data, key_id, kitty_protocol_active) ==
    matches_key_inner(data, key_id, kitty_protocol_active)

(***************************************************************************)
(* parse_key.  A key id is Some(<<bytes>>) as <<bytes>> in a one-element   *)
(* sequence, None is <<>>.                                                 *)
(***************************************************************************)
\* str::as_bytes of a string given by its characters: the UTF-8 bytes (the characters
\* of the model are below U+0800).
RECURSIVE as_bytes(_)
as_bytes(data) ==
    IF data = <<>> THEN <<>>
    ELSE (IF Head(data) < 128 THEN <<Head(data)>>
          ELSE <<192 + (Head(data) \div 64), 128 + (Head(data) % 64)>>)
         \o as_bytes(Tail(data))

\* The key number of a function-key sentinel: FUNC_F1 is -20, FUNC_F12 -31.
FunctionKeyName(codepoint) == <<102>> \o write_u32_u16(FUNC_F1 - codepoint + 1)

format_key_name(codepoint) ==
    CASE codepoint = CP_ESCAPE -> <<<<101, 115, 99, 97, 112, 101>>>>
      [] codepoint = CP_TAB -> <<<<116, 97, 98>>>>
      [] codepoint \in {CP_ENTER, CP_KP_ENTER} -> <<<<101, 110, 116, 101, 114>>>>
      [] codepoint = CP_SPACE -> <<<<115, 112, 97, 99, 101>>>>
      [] codepoint = CP_BACKSPACE -> <<<<98, 97, 99, 107, 115, 112, 97, 99, 101>>>>
      [] codepoint = CP_KP_0 -> <<<<105, 110, 115, 101, 114, 116>>>>
      [] codepoint = CP_KP_1 -> <<<<101, 110, 100>>>>
      [] codepoint = CP_KP_2 -> <<<<100, 111, 119, 110>>>>
      [] codepoint = CP_KP_3 -> <<<<112, 97, 103, 101, 68, 111, 119, 110>>>>
      [] codepoint = CP_KP_4 -> <<<<108, 101, 102, 116>>>>
      [] codepoint = CP_KP_5 -> <<<<99, 108, 101, 97, 114>>>>
      [] codepoint = CP_KP_6 -> <<<<114, 105, 103, 104, 116>>>>
      [] codepoint = CP_KP_7 -> <<<<104, 111, 109, 101>>>>
      [] codepoint = CP_KP_8 -> <<<<117, 112>>>>
      [] codepoint = CP_KP_9 -> <<<<112, 97, 103, 101, 85, 112>>>>
      [] codepoint = CP_KP_DECIMAL -> <<<<100, 101, 108, 101, 116, 101>>>>
      [] codepoint = FUNC_DELETE -> <<<<100, 101, 108, 101, 116, 101>>>>
      [] codepoint = FUNC_INSERT -> <<<<105, 110, 115, 101, 114, 116>>>>
      [] codepoint = FUNC_HOME -> <<<<104, 111, 109, 101>>>>
      [] codepoint = FUNC_END -> <<<<101, 110, 100>>>>
      [] codepoint = FUNC_PAGE_UP -> <<<<112, 97, 103, 101, 85, 112>>>>
      [] codepoint = FUNC_PAGE_DOWN -> <<<<112, 97, 103, 101, 68, 111, 119, 110>>>>
      [] codepoint = FUNC_CLEAR -> <<<<99, 108, 101, 97, 114>>>>
      [] codepoint = ARROW_UP -> <<<<117, 112>>>>
      [] codepoint = ARROW_DOWN -> <<<<100, 111, 119, 110>>>>
      [] codepoint = ARROW_LEFT -> <<<<108, 101, 102, 116>>>>
      [] codepoint = ARROW_RIGHT -> <<<<114, 105, 103, 104, 116>>>>
      [] codepoint \in FUNC_F12..FUNC_F1 -> <<FunctionKeyName(codepoint)>>
      [] codepoint \in 33..126 -> <<(<<codepoint>>)>>
      [] OTHER -> <<>>

format_with_mods(mods, key_name) ==
    (IF HasBit(mods, MOD_SHIFT) THEN <<115, 104, 105, 102, 116, 43>> ELSE <<>>)
    \o (IF HasBit(mods, MOD_CTRL) THEN <<99, 116, 114, 108, 43>> ELSE <<>>)
    \o (IF HasBit(mods, MOD_ALT) THEN <<97, 108, 116, 43>> ELSE <<>>)
    \o key_name

\* The codepoint itself when it is an ASCII letter or a known symbol, else the base
\* layout key if there is one.
EffectiveCodepoint(cp, base_layout_key) ==
    IF IsAsciiAlphabetic(cp) \/ is_symbol_key(cp) THEN cp
    ELSE IF base_layout_key # <<>> THEN base_layout_key[1]
    ELSE cp

\* format_kitty_key with the lock bits cleared and the effective codepoint chosen.
FormatKittyKey(effective_mod, effective_codepoint, text_codepoint) ==
    IF effective_mod = 0
    THEN IF text_codepoint # <<>> /\ format_key_name(text_codepoint[1]) # <<>>
         THEN format_key_name(text_codepoint[1])
         ELSE format_key_name(effective_codepoint)
    ELSE IF format_key_name(effective_codepoint) = <<>> THEN <<>>
    ELSE <<format_with_mods(effective_mod, format_key_name(effective_codepoint)[1])>>

format_kitty_key(parsed) ==
    FormatKittyKey(ClearLocks(parsed.modifier),
                   EffectiveCodepoint(parsed.codepoint, parsed.base_layout_key),
                   parsed.text_codepoint)

parse_single_byte(code) ==
    CASE code = 27 -> <<<<101, 115, 99, 97, 112, 101>>>>
      [] code = 9 -> <<<<116, 97, 98>>>>
      [] code \in {13, 10} -> <<<<101, 110, 116, 101, 114>>>>
      [] code = 0 -> <<<<99, 116, 114, 108, 43, 115, 112, 97, 99, 101>>>>
      [] code = 32 -> <<<<115, 112, 97, 99, 101>>>>
      [] code \in {127, 8} -> <<<<98, 97, 99, 107, 115, 112, 97, 99, 101>>>>
      [] code = 28 -> <<<<99, 116, 114, 108, 43, 92>>>>
      [] code = 29 -> <<<<99, 116, 114, 108, 43, 93>>>>
      [] code = 30 -> <<<<99, 116, 114, 108, 43, 94>>>>
      [] code = 31 -> <<<<99, 116, 114, 108, 43, 95>>>>
      [] code \in (1..26) \ {8, 9, 10, 13} -> <<<<99, 116, 114, 108, 43>> \o <<96 + code>> >>
      [] code \in 97..122 -> <<(<<code>>)>>
      [] code \in 33..126 -> <<(<<code>>)>>
      [] OTHER -> <<>>

\* Only the pairs that are read whatever the kitty flag.
EscPairExceptions(code, kitty_protocol_active) ==
    IF code \in {127, 8} THEN <<<<97, 108, 116, 43, 98, 97, 99, 107, 115, 112, 97, 99, 101>>>>
    ELSE IF code = 13 THEN <<<<97, 108, 116, 43, 101, 110, 116, 101, 114>>>>
    ELSE IF code = 9 THEN <<<<97, 108, 116, 43, 116, 97, 98>>>>
    ELSE <<>>

parse_esc_pair(code, kitty_protocol_active) ==
    IF code \in {127, 8} THEN <<<<97, 108, 116, 43, 98, 97, 99, 107, 115, 112, 97, 99, 101>>>>
    ELSE IF code = 13 THEN <<<<97, 108, 116, 43, 101, 110, 116, 101, 114>>>>
    ELSE IF code = 9 THEN <<<<97, 108, 116, 43, 116, 97, 98>>>>
    ELSE IF kitty_protocol_active THEN <<>>
    ELSE IF code = 32 THEN <<<<97, 108, 116, 43, 115, 112, 97, 99, 101>>>>
    ELSE IF code = 66 THEN <<<<97, 108, 116, 43, 108, 101, 102, 116>>>>
    ELSE IF code = 70 THEN <<<<97, 108, 116, 43, 114, 105, 103, 104, 116>>>>
    ELSE IF code \in 1..26 THEN <<<<99, 116, 114, 108, 43, 97, 108, 116, 43>> \o <<96 + code>> >>
    ELSE IF code \in 97..122 THEN <<<<97, 108, 116, 43>> \o <<code>> >>
    ELSE <<>>

\* LEGACY_SEQUENCES.get(bytes) as an Option.
LegacyKeyId(bytes) ==
    IF \E e \in LEGACY_SEQUENCES : e[1] = bytes
    THEN <<(CHOOSE e \in LEGACY_SEQUENCES : e[1] = bytes)[2]>>
    ELSE <<>>

\* The modifyOtherKeys branch: the key name of the keycode with the modifiers, the lock
\* bits cleared.
FormatModifyOtherKeys(mok) ==
    IF format_key_name(mok.keycode) = <<>> THEN <<>>
    ELSE IF mok.modifier = 0 THEN format_key_name(mok.keycode)
    ELSE <<format_with_mods(ClearLocks(mok.modifier), format_key_name(mok.keycode)[1])>>

\* The sequences that are neither legacy, modifyOtherKeys nor Kitty sequences.
ParseKeyFixed(bytes, kitty_protocol_active) ==
    IF Len(bytes) = 2 THEN parse_esc_pair(bytes[2], kitty_protocol_active)
    ELSE IF bytes = <<27, 91, 90>> THEN <<<<115, 104, 105, 102, 116, 43, 116, 97, 98>>>>
    ELSE IF bytes = <<27, 79, 77>> THEN <<<<101, 110, 116, 101, 114>>>>
    ELSE <<>>

\* The escape sequences, in the order of the code: legacy map, modifyOtherKeys, Kitty,
\* then the fixed sequences.
ParseKeyEscape(bytes, legacy, mok, parsed, kitty_protocol_active) ==
    IF legacy # <<>> THEN legacy
    ELSE IF mok.ok THEN FormatModifyOtherKeys(mok)
    ELSE IF parsed.ok THEN format_kitty_key(parsed)
    ELSE ParseKeyFixed(bytes, kitty_protocol_active)

parse_key_inner(bytes, kitty_protocol_active) ==
    IF Len(bytes) = 1 THEN parse_single_byte(bytes[1])
    ELSE IF bytes = <<>> \/ bytes[1] # 27 THEN <<>>
    ELSE ParseKeyEscape(bytes, LegacyKeyId(bytes), parse_modify_other_keys(bytes),
                        parse_kitty_sequence(bytes), kitty_protocol_active)

parse_key(data, kitty_protocol_active) == parse_key_inner(as_bytes(data), kitty_protocol_active)

(***************************************************************************)
(* parse_kitty_sequence (public) and matches_kitty_sequence.               *)
(***************************************************************************)
\* ParsedKittyResult of a parsed sequence p.
ParsedKittyResult(p) ==
    [codepoint |-> p.codepoint, shifted_key |-> p.shifted_key,
     base_layout_key |-> p.base_layout_key, modifier |-> p.modifier,
     event_type |-> p.event_type]

\* The public parse_kitty_sequence: Some(result) as <<result>>, None as <<>>.
parse_kitty_sequence_napi(data) ==
    IF parse_kitty_sequence(as_bytes(data)).ok
    THEN <<ParsedKittyResult(parse_kitty_sequence(as_bytes(data)))>>
    ELSE <<>>

\* The base layout key stands in for any primary codepoint.
BaseLayoutMatchesAlways(parsed, expected_codepoint) ==
    /\ parsed.base_layout_key # <<>>
    /\ parsed.base_layout_key[1] = expected_codepoint

\* The base layout key stands in only for a primary codepoint that is neither an ASCII
\* letter nor a known symbol.
BaseLayoutMatches(parsed, expected_codepoint) ==
    /\ parsed.base_layout_key # <<>>
    /\ parsed.base_layout_key[1] = expected_codepoint
    /\ ~IsAsciiAlphabetic(parsed.codepoint)
    /\ ~is_symbol_key(parsed.codepoint)

MatchesParsedKitty(parsed, expected_codepoint, expected_modifier) ==
    IF ~parsed.ok THEN FALSE
    ELSE IF ClearLocks(parsed.modifier) # ClearLocks(expected_modifier) THEN FALSE
    ELSE IF parsed.codepoint = expected_codepoint THEN TRUE
    ELSE BaseLayoutMatches(parsed, expected_codepoint)

matches_kitty_sequence(data, expected_codepoint, expected_modifier) ==
    MatchesParsedKitty(parse_kitty_sequence(as_bytes(data)), expected_codepoint,
                       expected_modifier)

(***************************************************************************)
(* Inputs of matches_key: sequences with a wire modifier field, each with  *)
(* and without lock bits in the modifier.                                  *)
(***************************************************************************)
\* The modifiers shift, alt, ctrl and their combinations go up to MaxModifier.
MaxModifier == 7

\* n in decimal digits.
RECURSIVE Digits(_)
Digits(n) == IF n < 10 THEN <<48 + n>> ELSE Digits(n \div 10) \o <<48 + (n % 10)>>

\* CSI code ; mods+1 u
WireCsiU(code, mods) == <<27, 91>> \o Digits(code) \o <<59>> \o Digits(mods + 1) \o <<117>>

\* CSI number ; mods+1 ~
WireTilde(number, mods) == <<27, 91>> \o Digits(number) \o <<59>> \o Digits(mods + 1) \o <<126>>

\* CSI 1 ; mods+1 letter
WireLetter(letter, mods) == <<27, 91, 49, 59>> \o Digits(mods + 1) \o <<letter>>

\* CSI 27 ; mods+1 ; keycode ~
WireModifyOtherKeys(keycode, mods) ==
    <<27, 91, 50, 55, 59>> \o Digits(mods + 1) \o <<59>> \o Digits(keycode) \o <<126>>

\* CSI code :: base ; mods+1 u
WireCsiUBase(code, base, mods) ==
    <<27, 91>> \o Digits(code) \o <<58, 58>> \o Digits(base) \o <<59>> \o Digits(mods + 1)
    \o <<117>>

Wire(form, mods) ==
    CASE form.kind = "csi_u" -> WireCsiU(form.code, mods)
      [] form.kind = "tilde" -> WireTilde(form.code, mods)
      [] form.kind = "letter" -> WireLetter(form.code, mods)
      [] form.kind = "modify_other_keys" -> WireModifyOtherKeys(form.code, mods)
      [] form.kind = "csi_u_base" -> WireCsiUBase(form.code, form.base, mods)

\* a, '-', tab, enter, escape, space, backspace, keypad 4 as CSI u; insert, delete,
\* pageUp, F1, F5 as CSI ~; up, left, home, F1 as CSI 1 letter; a, tab, enter, space as
\* modifyOtherKeys.
WireForms ==
    [kind : {"csi_u"}, code : {97, 45, CP_TAB, CP_ENTER, CP_ESCAPE, CP_SPACE, CP_BACKSPACE,
                               CP_KP_4}]
    \cup [kind : {"tilde"}, code : {2, 3, 5, 11, 15}]
    \cup [kind : {"letter"}, code : {65, 68, 72, 80}]
    \cup [kind : {"modify_other_keys"}, code : {97, CP_TAB, CP_ENTER, CP_SPACE}]

\* "", "shift+", "alt+", "ctrl+", "ctrl+shift+", "ctrl+alt+"
KeyModifiers == {<<>>, <<115, 104, 105, 102, 116, 43>>, <<97, 108, 116, 43>>, <<99, 116, 114, 108, 43>>, <<99, 116, 114, 108, 43, 115, 104, 105, 102, 116, 43>>, <<99, 116, 114, 108, 43, 97, 108, 116, 43>>}

\* a, A, -, +, escape, space, tab, enter, backspace, insert, delete, pageUp, home, up,
\* left, f1, f5
KeyNames ==
    {<<97>>, <<65>>, <<45>>, <<43>>, <<101, 115, 99, 97, 112, 101>>, <<115, 112, 97, 99, 101>>, <<116, 97, 98>>, <<101, 110, 116, 101, 114>>, <<98, 97, 99, 107, 115, 112, 97, 99, 101>>, <<105, 110, 115, 101, 114, 116>>,
     <<100, 101, 108, 101, 116, 101>>, <<112, 97, 103, 101, 85, 112>>, <<104, 111, 109, 101>>, <<117, 112>>, <<108, 101, 102, 116>>, <<102, 49>>, <<102, 53>>}

KeyIds == {m \o k : m \in KeyModifiers, k \in KeyNames}

KeyCalls ==
    {[op |-> "matches_key", data |-> Wire(form, mods), locked |-> Wire(form, mods + lock),
      key_id |-> key_id, kitty_protocol_active |-> kitty]
        : form \in WireForms, mods \in 0..MaxModifier, lock \in {64, 128, 192},
          key_id \in KeyIds, kitty \in BOOLEAN}

InitKeys == pc = "ready" /\ call \in KeyCalls /\ ret = FALSE /\ loop = FALSE

\* matches_key on the input without lock bits.
MatchesKey ==
    /\ pc = "ready"
    /\ call.op = "matches_key"
    /\ ret' = matches_key(call.data, call.key_id, call.kitty_protocol_active)
    /\ pc' = "matched"
    /\ UNCHANGED <<call, loop>>

\* matches_key on the same input with lock bits; loop keeps the first result.
MatchesKeyLocked ==
    /\ pc = "matched"
    /\ call.op = "matches_key"
    /\ loop' = ret
    /\ ret' = matches_key(call.locked, call.key_id, call.kitty_protocol_active)
    /\ pc' = "done"
    /\ UNCHANGED call

NextKeys == MatchesKey \/ MatchesKeyLocked

SpecKeys == InitKeys /\ [][NextKeys]_vars

MatchedBoth == pc = "done" /\ call.op = "matches_key"

\* C6: matches_key returns the same result for an input with a wire modifier field
\* (CSI u, CSI ~, CSI 1;mod letter, modifyOtherKeys) whether or not the CapsLock (64)
\* and NumLock (128) bits are set in the decoded modifier, for every key id and both
\* values of the kitty flag.
C6_LockBitIndependence == MatchedBoth => ret = loop

(***************************************************************************)
(* Specification of the calls of the key decoder: parse_key,               *)
(* parse_kitty_sequence, matches_kitty_sequence, parse_modify_other_keys,  *)
(* and matches_key on inputs with a base layout key.                       *)
(***************************************************************************)
\* 'd' with base layout 'a', Cyrillic a with base layout 'a', '=' with base layout '-',
\* Cyrillic a with base layout '-', as CSI code::base ; mods u.
BaseLayoutForms == [kind : {"csi_u_base"}, code : {100, 61, 1072}, base : {97, 45}]

\* The forms of the inputs: those of matches_key, 'A' as CSI u, and the base layout
\* forms.
DecodeForms == WireForms \cup [kind : {"csi_u"}, code : {65}] \cup BaseLayoutForms

\* The decoded modifiers of the inputs: -1 is the wire value 0, and every modifier also
\* with lock bits.
WireModifiers ==
    (-1..MaxModifier) \cup {mods + lock : mods \in 0..MaxModifier, lock \in {64, 128, 192}}

WireCalls(op) ==
    {[op |-> op, data |-> Wire(form, mods), form |-> form, mods |-> mods]
        : form \in DecodeForms, mods \in WireModifiers}

\* Single characters, ESC X pairs, the sequences with a modifier field, the legacy
\* sequences, ESC [ Z, ESC O M, the empty string and "ab".
ParseKeyData ==
    {<<c>> : c \in 0..127} \cup {<<233>>} \cup {<<27, c>> : c \in 0..127}
    \cup {Wire(form, mods) : form \in DecodeForms, mods \in WireModifiers}
    \cup {e[1] : e \in LEGACY_SEQUENCES}
    \cup {<<27, 91, 90>>, <<27, 79, 77>>, <<>>, <<97, 98>>}

ParseKeyCalls == [op : {"parse_key"}, data : ParseKeyData, kitty_protocol_active : BOOLEAN]

MatchesKittyCalls ==
    {[op |-> "matches_kitty_sequence", data |-> Wire(form, mods),
      expected_codepoint |-> cp, expected_modifier |-> m]
        : form \in DecodeForms, mods \in WireModifiers, cp \in {97, 45, 65, 100, CP_TAB},
          m \in (0..MaxModifier) \cup {MOD_CTRL + 64}}

BaseLayoutKeyCalls ==
    {[op |-> "matches_key", data |-> Wire(form, mods), locked |-> Wire(form, mods + lock),
      key_id |-> key_id, kitty_protocol_active |-> kitty]
        : form \in BaseLayoutForms, mods \in 0..MaxModifier, lock \in {64, 128, 192},
          key_id \in KeyIds, kitty \in BOOLEAN}

DecodeCalls ==
    ParseKeyCalls \cup WireCalls("parse_kitty_sequence") \cup MatchesKittyCalls
    \cup WireCalls("parse_modify_other_keys") \cup BaseLayoutKeyCalls

InitDecode == pc = "ready" /\ call \in DecodeCalls /\ ret = FALSE /\ loop = FALSE

ParseKey ==
    /\ pc = "ready"
    /\ call.op = "parse_key"
    /\ ret' = parse_key(call.data, call.kitty_protocol_active)
    /\ pc' = "done"
    /\ UNCHANGED <<call, loop>>

ParseKittySequence ==
    /\ pc = "ready"
    /\ call.op = "parse_kitty_sequence"
    /\ ret' = parse_kitty_sequence_napi(call.data)
    /\ pc' = "done"
    /\ UNCHANGED <<call, loop>>

MatchesKittySequence ==
    /\ pc = "ready"
    /\ call.op = "matches_kitty_sequence"
    /\ ret' = matches_kitty_sequence(call.data, call.expected_codepoint,
                                     call.expected_modifier)
    /\ pc' = "done"
    /\ UNCHANGED <<call, loop>>

\* parse_modify_other_keys on the bytes of the input: Some((modifier, keycode)) as a
\* one-element sequence, None as <<>>.
ParseModifyOtherKeys ==
    /\ pc = "ready"
    /\ call.op = "parse_modify_other_keys"
    /\ ret' = IF parse_modify_other_keys(call.data).ok
              THEN <<parse_modify_other_keys(call.data)>>
              ELSE <<>>
    /\ pc' = "done"
    /\ UNCHANGED <<call, loop>>

NextDecode ==
    \/ ParseKey
    \/ ParseKittySequence
    \/ MatchesKittySequence
    \/ ParseModifyOtherKeys
    \/ MatchesKey
    \/ MatchesKeyLocked

SpecDecode == InitDecode /\ [][NextDecode]_vars

ParsedKey == pc = "done" /\ call.op = "parse_key"

\* C12: parse_key of the Kitty CSI u input ESC [ 6 5 ; 5 u (key code 65, wire modifier
\* 5) with the kitty flag false is the key id "ctrl+a".
C12_ParseKeyCtrlA ==
    (ParsedKey /\ call.data = <<27, 91, 54, 53, 59, 53, 117>> /\ ~call.kitty_protocol_active) =>
        ret = <<<<99, 116, 114, 108, 43, 97>>>>

ParsedKitty == pc = "done" /\ call.op = "parse_kitty_sequence"

\* C13: the modifier of every result of the public parse_kitty_sequence excludes the
\* lock bits: neither CapsLock (64) nor NumLock (128) is set in it.
C13_ResultExcludesLockBits ==
    (ParsedKitty /\ ret # <<>>) => LockBits(ret[1].modifier) = 0

\* The Kitty sequence of the input that the state's result is about: the input with lock
\* bits once matches_key has been called on it, else the input as given.
MatchedInput ==
    parse_kitty_sequence(IF pc = "done" /\ call.op = "matches_key" THEN call.locked
                         ELSE call.data)

\* The codepoint that a single-character key id requests; <<>> for the other ids.
RequestedCodepoint(id) ==
    IF id.ok /\ Len(id.key) = 1 /\ IsAsciiGraphic(id.key[1])
    THEN <<ToAsciiLowercase(id.key[1])>>
    ELSE <<>>

\* The event p has the base layout key cp, and a primary codepoint that is an ASCII
\* letter or a known symbol other than cp.
BaseLayoutOnly(p, cp) ==
    /\ p.ok
    /\ p.base_layout_key = <<cp>>
    /\ p.codepoint # cp
    /\ (IsAsciiAlphabetic(p.codepoint) \/ is_symbol_key(p.codepoint))

\* C14 for matches_kitty_sequence.
NoBaseLayoutMatchKitty ==
    (pc = "done" /\ call.op = "matches_kitty_sequence"
        /\ BaseLayoutOnly(MatchedInput, call.expected_codepoint)) => ret = FALSE

\* C14 for the Kitty path of matches_key, after either call.
NoBaseLayoutMatchKey ==
    (pc \in {"matched", "done"} /\ call.op = "matches_key"
        /\ RequestedCodepoint(parse_key_id(call.key_id)) # <<>>
        /\ BaseLayoutOnly(MatchedInput, RequestedCodepoint(parse_key_id(call.key_id))[1]))
        => ret = FALSE

\* C14: a Kitty event whose primary codepoint is an ASCII letter or a known symbol
\* other than the requested codepoint does not match, even if its base layout key is the
\* requested codepoint; in matches_kitty_sequence and in the Kitty path of matches_key.
C14_BaseLayoutFallback == NoBaseLayoutMatchKitty /\ NoBaseLayoutMatchKey

\* matches_kitty_sequence has rejected an event with agreeing modifiers whose base
\* layout key is the requested codepoint and whose primary codepoint is another letter
\* or symbol.
C14_BaseLayoutRejected ==
    /\ pc = "done"
    /\ call.op = "matches_kitty_sequence"
    /\ BaseLayoutOnly(MatchedInput, call.expected_codepoint)
    /\ ClearLocks(MatchedInput.modifier) = ClearLocks(call.expected_modifier)
    /\ ret = FALSE

\* The input of the call is of a grammar that the called parser reads.
ParsedWire ==
    /\ pc = "done"
    /\ \/ call.op = "parse_kitty_sequence" /\ call.form.kind # "modify_other_keys"
       \/ call.op = "parse_modify_other_keys" /\ call.form.kind = "modify_other_keys"

\* C15: in CSI u, CSI number ; mods ~, CSI 1 ; mods letter and modifyOtherKeys, the
\* wire modifier value 0 makes the parse fail with no result, and a wire value m >= 1
\* decodes to the modifier m - 1; no result has a modifier below 0.
C15_WireModifier ==
    ParsedWire =>
        IF call.mods = -1 THEN ret = <<>>
        ELSE ret # <<>> /\ ret[1].modifier = call.mods /\ ret[1].modifier >= 0

\* The parse of a CSI u input with the wire modifier value 0 has failed.
C15_ZeroModifierRejected ==
    ParsedWire /\ call.form.kind = "csi_u" /\ call.mods = -1 /\ ret = <<>>

\* parse_key has returned for a two-byte input ESC X.
ParsedEscPair == ParsedKey /\ Len(call.data) = 2 /\ call.data[1] = 27

\* The result of ESC X for X among DEL, BS, CR and TAB.
EscPairException(x) ==
    CASE x \in {127, 8} -> <<<<97, 108, 116, 43, 98, 97, 99, 107, 115, 112, 97, 99, 101>>>>
      [] x = 13 -> <<<<97, 108, 116, 43, 101, 110, 116, 101, 114>>>>
      [] x = 9 -> <<<<97, 108, 116, 43, 116, 97, 98>>>>

\* The Alt-prefixed id of X: alt+<letter>, alt+space, ctrl+alt+<letter>.
AltPrefixed(x) ==
    CASE x \in 97..122 -> <<<<97, 108, 116, 43>> \o <<x>> >>
      [] x = 32 -> <<<<97, 108, 116, 43, 115, 112, 97, 99, 101>>>>
      [] x \in 1..26 -> <<<<99, 116, 114, 108, 43, 97, 108, 116, 43>> \o <<96 + x>> >>

AltPrefixedIds == {AltPrefixed(x) : x \in (97..122) \cup {32} \cup (1..26)}

\* ESC b, ESC f, ESC p and ESC n of LEGACY_SEQUENCES.
LegacyAltArrow(x) ==
    CASE x = 98 -> <<<<97, 108, 116, 43, 108, 101, 102, 116>>>>
      [] x = 102 -> <<<<97, 108, 116, 43, 114, 105, 103, 104, 116>>>>
      [] x = 112 -> <<<<97, 108, 116, 43, 117, 112>>>>
      [] x = 110 -> <<<<97, 108, 116, 43, 100, 111, 119, 110>>>>

\* C16 as stated: ESC X is alt+backspace for DEL and BS, alt+enter for CR, alt+tab for
\* TAB whatever the kitty flag; every other X among a-z, space and 0x01-0x1A gives its
\* Alt-prefixed id with the flag false, and no X gives one with the flag true.
C16_EscPairAsStated ==
    ParsedEscPair =>
        IF call.data[2] \in {127, 8, 13, 9} THEN ret = EscPairException(call.data[2])
        ELSE IF call.kitty_protocol_active THEN ret \notin AltPrefixedIds
        ELSE call.data[2] \in (97..122) \cup {32} \cup (1..26)
                => ret = AltPrefixed(call.data[2])

\* C16: ESC X is alt+backspace for DEL and BS, alt+enter for CR, alt+tab for TAB, and
\* alt+left, alt+right, alt+up, alt+down for b, f, p, n whatever the kitty flag; with
\* the flag false B and F give alt+left and alt+right, every other X among a-z, space
\* and 0x01-0x1A gives its Alt-prefixed id, and the remaining X give none; with the
\* flag true every other X gives no id.
C16_EscPair ==
    ParsedEscPair =>
        IF call.data[2] \in {127, 8, 13, 9} THEN ret = EscPairException(call.data[2])
        ELSE IF call.data[2] \in {98, 102, 112, 110} THEN ret = LegacyAltArrow(call.data[2])
        ELSE IF call.kitty_protocol_active THEN ret = <<>>
        ELSE IF call.data[2] \in (97..122) \cup {32} \cup (1..26)
             THEN ret = AltPrefixed(call.data[2])
        ELSE IF call.data[2] = 66 THEN ret = <<<<97, 108, 116, 43, 108, 101, 102, 116>>>>
        ELSE IF call.data[2] = 70 THEN ret = <<<<97, 108, 116, 43, 114, 105, 103, 104, 116>>>>
        ELSE ret = <<>>

\* parse_key has returned alt+left for ESC b with the kitty flag false.
C16_EscBIsAltLeft ==
    /\ ParsedEscPair
    /\ call.data[2] = 98
    /\ ~call.kitty_protocol_active
    /\ ret = <<<<97, 108, 116, 43, 108, 101, 102, 116>>>>

(***************************************************************************)
(* Specification of concurrent callers of for_each_grapheme_u16_slow: each *)
(* thread calls it on segments of its own, one step of one thread at a     *)
(* time. pc, call and ret hold one value for each thread; loop holds the   *)
(* SCRATCH cell of every thread and the locals of every call.              *)
(***************************************************************************)
MaxThreads == 2
MaxCalls == 2

Threads == 1..MaxThreads

\* "e" with a combining acute accent (one cluster), a CJK ideograph before an e-acute
\* (two clusters), and the empty segment.
ScratchSegments == {<<101, 769>>, <<20013, 233>>, <<>>}

\* All threads use one cell.
SharedScratch(t) == 1

\* thread_local!: the SCRATCH cell that thread t uses is its own.
ThreadScratch(t) == t

\* std::char::decode_utf16 with unwrap_or('\u{FFFD}'): a surrogate pair is one character,
\* a lone surrogate the replacement character.
RECURSIVE decode_utf16(_, _)
decode_utf16(segment, i) ==
    IF i > Len(segment) THEN <<>>
    ELSE IF segment[i] \in 55296..56319 /\ i < Len(segment) /\ segment[i + 1] \in 56320..57343
    THEN <<65536 + (segment[i] - 55296) * 1024 + (segment[i + 1] - 56320)>>
             \o decode_utf16(segment, i + 2)
    ELSE IF segment[i] \in 55296..57343 THEN <<65533>> \o decode_utf16(segment, i + 1)
    ELSE <<segment[i]>> \o decode_utf16(segment, i + 1)

\* g.chars().map(|c| c.len_utf16()).sum()
RECURSIVE Utf16Len(_)
Utf16Len(g) ==
    IF g = <<>> THEN 0 ELSE (IF Head(g) >= 65536 THEN 2 ELSE 1) + Utf16Len(Tail(g))

\* The cluster of scratch.graphemes(true) that starts at character k.
ScratchGraphemeAt(scratch, k) ==
    SubSeq(scratch, k,
           k + (IF scratch[k] < 32 \/ scratch[k] \in 127..159 THEN 1
                ELSE ClusterLen(scratch, k)) - 1)

\* The locals of a call when it begins.
ScratchLocals(calls) == [calls |-> calls, utf16_pos |-> 0, k |-> 1, out |-> <<>>]

\* The callback receives the units of grapheme g of the segment with their width.
ScratchCallback(l, segment, g, tab_width) ==
    [l EXCEPT !.out = Append(@, [units |-> SubSeq(segment, l.utf16_pos + 1,
                                                  l.utf16_pos + Utf16Len(g)),
                                 w |-> grapheme_width_str(g, tab_width)]),
              !.utf16_pos = @ + Utf16Len(g),
              !.k = @ + Len(g)]

InitScratch ==
    /\ pc = [t \in Threads |-> "idle"]
    /\ call = [t \in Threads |-> [op |-> "for_each_grapheme_u16_slow", segment |-> <<>>]]
    /\ ret = [t \in Threads |-> <<>>]
    /\ loop = [SCRATCH |-> [i \in Threads |-> [value |-> <<>>, borrowed |-> FALSE]],
               local |-> [t \in Threads |-> ScratchLocals(0)]]

\* Thread t calls for_each_grapheme_u16_slow on a segment.
ScratchCall(t) ==
    /\ pc[t] = "idle"
    /\ loop.local[t].calls < MaxCalls
    /\ \E segment \in ScratchSegments :
           call' = [call EXCEPT ![t] = [op |-> "for_each_grapheme_u16_slow",
                                        segment |-> segment]]
    /\ pc' = [pc EXCEPT ![t] = "called"]
    /\ loop' = [loop EXCEPT !.local[t] = ScratchLocals(@.calls)]
    /\ UNCHANGED ret

\* An empty segment returns at once; otherwise SCRATCH.with_borrow_mut borrows the cell,
\* and panics if it is borrowed.
ScratchBorrow(t) ==
    /\ pc[t] = "called"
    /\ pc' = [pc EXCEPT ![t] = IF call[t].segment = <<>> THEN "idle"
                               ELSE IF loop.SCRATCH[ThreadScratch(t)].borrowed THEN "panicked"
                               ELSE "borrowed"]
    /\ loop' = IF call[t].segment = <<>> THEN [loop EXCEPT !.local[t].calls = @ + 1]
               ELSE [loop EXCEPT !.SCRATCH[ThreadScratch(t)].borrowed = TRUE]
    /\ ret' = IF call[t].segment = <<>> THEN [ret EXCEPT ![t] = <<>>] ELSE ret
    /\ UNCHANGED call

\* scratch.clear(); scratch.reserve(segment.len())
ScratchClear(t) ==
    /\ pc[t] = "borrowed"
    /\ loop' = [loop EXCEPT !.SCRATCH[ThreadScratch(t)].value = <<>>]
    /\ pc' = [pc EXCEPT ![t] = "cleared"]
    /\ UNCHANGED <<call, ret>>

\* The characters of the segment are pushed.
ScratchPush(t) ==
    /\ pc[t] = "cleared"
    /\ loop' = [loop EXCEPT !.SCRATCH[ThreadScratch(t)].value =
                                @ \o decode_utf16(call[t].segment, 1)]
    /\ pc' = [pc EXCEPT ![t] = "graphemes"]
    /\ UNCHANGED <<call, ret>>

\* The units of the grapheme of scratch at character k lie in the segment.
ScratchSliceInSegment(l, scratch, segment) ==
    l.utf16_pos + Utf16Len(ScratchGraphemeAt(scratch, l.k)) <= Len(segment)

\* One grapheme of scratch: its units are sliced from the segment (a panic if they lie
\* past its end) and passed to the callback.
ScratchGrapheme(t) ==
    /\ pc[t] = "graphemes"
    /\ loop.local[t].k <= Len(loop.SCRATCH[ThreadScratch(t)].value)
    /\ pc' = [pc EXCEPT ![t] =
                 IF ScratchSliceInSegment(loop.local[t], loop.SCRATCH[ThreadScratch(t)].value,
                                          call[t].segment)
                 THEN "graphemes" ELSE "panicked"]
    /\ loop' = IF ScratchSliceInSegment(loop.local[t], loop.SCRATCH[ThreadScratch(t)].value,
                                        call[t].segment)
               THEN [loop EXCEPT !.local[t] =
                        ScratchCallback(@, call[t].segment,
                                        ScratchGraphemeAt(loop.SCRATCH[ThreadScratch(t)].value,
                                                          @.k),
                                        clamp_tab_width(None))]
               ELSE loop
    /\ UNCHANGED <<call, ret>>

\* After the last grapheme the borrow ends and the call returns; the text of SCRATCH
\* stays.
ScratchReturn(t) ==
    /\ pc[t] = "graphemes"
    /\ loop.local[t].k > Len(loop.SCRATCH[ThreadScratch(t)].value)
    /\ ret' = [ret EXCEPT ![t] = loop.local[t].out]
    /\ loop' = [loop EXCEPT !.SCRATCH[ThreadScratch(t)].borrowed = FALSE,
                            !.local[t].calls = @ + 1]
    /\ pc' = [pc EXCEPT ![t] = "idle"]
    /\ UNCHANGED call

NextScratch ==
    \E t \in Threads :
        \/ ScratchCall(t)
        \/ ScratchBorrow(t)
        \/ ScratchClear(t)
        \/ ScratchPush(t)
        \/ ScratchGrapheme(t)
        \/ ScratchReturn(t)

SpecScratch == InitScratch /\ [][NextScratch]_vars

\* A call of thread t has returned what the call returns when it runs alone.
ReturnsAsAlone(t) ==
    (pc[t] = "idle" /\ loop.local[t].calls > 0) =>
        ret[t] = for_each_grapheme_u16_slow(call[t].segment, clamp_tab_width(None))

\* While thread t reads the graphemes of SCRATCH, SCRATCH holds the characters of the
\* segment of its call and nothing else.
ReadsOwnSegment(t) ==
    pc[t] = "graphemes" =>
        loop.SCRATCH[ThreadScratch(t)].value = decode_utf16(call[t].segment, 1)

\* C20: under every interleaving of the calls of the threads, every call returns the
\* result that it returns alone, SCRATCH is read only after it was cleared and filled by
\* the same call, and no call finds SCRATCH borrowed (no call panics).
C20_ConcurrentCalls ==
    \A t \in Threads : ReturnsAsAlone(t) /\ ReadsOwnSegment(t) /\ pc[t] # "panicked"

\* A thread has returned from its second call, on a segment other than that of the
\* first, while another thread is reading the graphemes of its SCRATCH.
C20_SecondCallDuringRead ==
    \E t, u \in Threads :
        /\ t # u
        /\ pc[t] = "idle"
        /\ loop.local[t].calls = 2
        /\ ret[t] # <<>>
        /\ loop.SCRATCH[ThreadScratch(t)].value # <<>>
        /\ pc[u] = "graphemes"
        /\ loop.local[u].k > 1
        /\ call[u].segment # call[t].segment

(***************************************************************************)
(* Content search (grep.rs): the MatchCollector sink of one search. The    *)
(* searcher reads lines one after the other and reports each as a match or *)
(* as a context line, until matched returns false or the input ends. loop  *)
(* holds the collector and the number of the next line.                    *)
(***************************************************************************)
MaxCount == 2
MaxOffset == 1
MaxCallbacks == 4

\* "abcdef " and "ab": the lines that match; "cd": the context lines.
MatchLines == {<<97, 98, 99, 100, 101, 102, 32>>, <<97, 98>>}
ContextLines == {<<99, 100>>}

\* bytes_to_trimmed_string for the ASCII lines of the model.
bytes_to_trimmed_string(bytes) == TrimEnd(bytes)

\* The line and the truncated flag: a line longer than max_columns is cut to
\* max_columns - 3 bytes (0 at least) and "..." is appended.
truncate_line(max_columns, line) ==
    IF max_columns # None /\ Len(line) > max_columns
    THEN [line |-> SubSeq(line, 1, Max(max_columns - 3, 0)) \o <<46, 46, 46>>,
          truncated |-> TRUE]
    ELSE [line |-> line, truncated |-> FALSE]

MatchCollector_new ==
    [matches |-> <<>>, match_count |-> 0, collected_count |-> 0, skipped |-> 0,
     limit_reached |-> FALSE, context_before |-> <<>>]

SearchCalls ==
    [op : {"search"}, max_count : {None} \cup (0..MaxCount), offset : 0..MaxOffset,
     max_columns : {None, 4}, collect_matches : BOOLEAN]

InitSearch ==
    /\ pc = "searching"
    /\ call \in SearchCalls
    /\ ret = <<>>
    /\ loop = [collector |-> MatchCollector_new, line |-> 1]

\* The match that matched pushes for the line t (already truncated).
CollectedMatch(c, line_number, t) ==
    [line_number |-> line_number, line |-> t.line, context_before |-> c.context_before,
     context_after |-> <<>>, truncated |-> t.truncated]

\* The collector after a match that is neither refused nor skipped.
CollectMatch(c, line_number, t) ==
    [c EXCEPT !.matches = IF call.collect_matches
                          THEN Append(@, CollectedMatch(c, line_number, t)) ELSE @,
              !.context_before = <<>>,
              !.collected_count = @ + 1,
              !.limit_reached = call.max_count # None /\ c.collected_count + 1 >= call.max_count]

\* The collector after matched, match_count already counted.
MatchedCollector(c, line_number, bytes) ==
    IF c.limit_reached THEN c
    ELSE IF c.skipped < call.offset
    THEN [c EXCEPT !.skipped = @ + 1, !.context_before = <<>>]
    ELSE CollectMatch(c, line_number,
                      truncate_line(call.max_columns, bytes_to_trimmed_string(bytes)))

\* Sink::matched on the next line; Ok(false) stops the searcher.
Matched ==
    /\ pc = "searching"
    /\ loop.line <= MaxCallbacks
    /\ \E bytes \in MatchLines :
           loop' = [collector |->
                        MatchedCollector([loop.collector EXCEPT !.match_count = @ + 1],
                                         loop.line, bytes),
                    line |-> loop.line + 1]
    /\ pc' = IF loop.collector.limit_reached THEN "stopped" ELSE "searching"
    /\ UNCHANGED <<call, ret>>

\* The collector after a context line of the kind.
ContextCollector(c, kind, line_number, line) ==
    IF ~call.collect_matches THEN c
    ELSE IF kind = "Before"
    THEN [c EXCEPT !.context_before = Append(@, [line_number |-> line_number, line |-> line])]
    ELSE IF kind = "After" /\ c.matches # <<>>
    THEN [c EXCEPT !.matches[Len(c.matches)].context_after =
                       Append(@, [line_number |-> line_number, line |-> line])]
    ELSE c

\* Sink::context on the next line, of any kind.
Context ==
    /\ pc = "searching"
    /\ loop.line <= MaxCallbacks
    /\ \E kind \in {"Before", "After", "Other"}, bytes \in ContextLines :
           loop' = [collector |->
                        ContextCollector(loop.collector, kind, loop.line,
                                         truncate_line(call.max_columns,
                                                       bytes_to_trimmed_string(bytes)).line),
                    line |-> loop.line + 1]
    /\ UNCHANGED <<pc, call, ret>>

\* The searcher has stopped or the input has ended: run_search_reader returns.
SearchReturns ==
    /\ pc \in {"searching", "stopped"}
    /\ ret' = [matches |-> loop.collector.matches,
               match_count |-> loop.collector.match_count,
               collected |-> loop.collector.collected_count,
               limit_reached |-> loop.collector.limit_reached]
    /\ pc' = "done"
    /\ UNCHANGED <<call, loop>>

NextSearch == Matched \/ Context \/ SearchReturns

SpecSearch == InitSearch /\ [][NextSearch]_vars

\* The matches collected are at most max_count, as counted and as returned.
AtMostMaxCount ==
    call.max_count # None =>
        /\ loop.collector.collected_count <= call.max_count
        /\ Len(loop.collector.matches) <= call.max_count
        /\ pc = "done" => Len(ret.matches) <= call.max_count

\* Matches are collected only once offset matches were skipped, and the skipped ones
\* are not among the collected.
OffsetSkipped ==
    /\ loop.collector.skipped <= call.offset
    /\ loop.collector.collected_count > 0 => loop.collector.skipped = call.offset
    /\ loop.collector.collected_count + loop.collector.skipped <= loop.collector.match_count

\* C21: with max_count = n the matches collected and returned are at most n at any
\* time, so none is collected once n are; the first offset matches are skipped and not
\* collected.
C21_MaxCountAndOffset ==
    (call.op = "search") => AtMostMaxCount /\ OffsetSkipped

(***************************************************************************)
(* Specification of the calls of ansi_seq_len_u16; the length 0 stands for *)
(* None.                                                                   *)
(***************************************************************************)
\* ESC, '[', ']', 'P', space, 'm', BEL, '\'.
AnsiPieces == {<<ESC>>, <<91>>, <<93>>, <<80>>, <<32>>, <<109>>, <<7>>, <<92>>}

AnsiCalls ==
    {[op |-> "ansi_seq_len_u16", data |-> data, pos |-> pos] :
        data \in TextsOf(AnsiPieces, MaxPieces), pos \in 1..(MaxPieces + 1)}

InitAnsi == pc = "ready" /\ call \in AnsiCalls /\ ret = <<>> /\ loop = <<>>

AnsiSeqLen ==
    /\ pc = "ready"
    /\ call.op = "ansi_seq_len_u16"
    /\ ret' = ansi_seq_len_u16(call.data, call.pos)
    /\ pc' = "done"
    /\ UNCHANGED <<call, loop>>

NextAnsi == AnsiSeqLen

SpecAnsi == InitAnsi /\ [][NextAnsi]_vars

AnsiDone == pc = "done" /\ call.op = "ansi_seq_len_u16"

EndsWithST(s) == Len(s) >= 4 /\ s[Len(s) - 1] = 27 /\ s[Len(s)] = 92

\* s is a complete sequence of one of the forms: CSI ... final, OSC ... BEL or ST,
\* DCS/SOS/PM/APC ... ST, ESC intermediate ... final, ESC final.
IsCompleteSequence(s) ==
    /\ Len(s) >= 2
    /\ s[1] = 27
    /\ CASE s[2] = 91 -> Len(s) >= 3 /\ s[Len(s)] \in 64..126
         [] s[2] = 93 -> (Len(s) >= 3 /\ s[Len(s)] = 7) \/ EndsWithST(s)
         [] s[2] \in {80, 88, 94, 95} -> EndsWithST(s)
         [] s[2] \in 32..47 -> Len(s) >= 3 /\ s[Len(s)] \in 48..126
         [] s[2] \in 64..126 \ {91, 93, 80, 88, 94, 95} -> Len(s) = 2
         [] OTHER -> FALSE

\* A terminator of the form that data[pos + 1] introduces stands at k.
TerminatorAt(data, pos, k) ==
    CASE data[pos + 1] = 91 -> data[k] \in 64..126
      [] data[pos + 1] = 93 -> data[k] = 7 \/ (data[k] = 27 /\ k < Len(data) /\ data[k + 1] = 92)
      [] data[pos + 1] \in {80, 88, 94, 95} -> data[k] = 27 /\ k < Len(data) /\ data[k + 1] = 92
      [] data[pos + 1] \in 32..47 -> data[k] \in 48..126
      [] OTHER -> FALSE

\* An introducer of a form with a terminator stands behind the ESC at pos, and no
\* terminator of the form follows it.
Unterminated(data, pos) ==
    /\ pos + 1 <= Len(data)
    /\ data[pos] = 27
    /\ data[pos + 1] \in {91, 93, 80, 88, 94, 95} \cup (32..47)
    /\ \A k \in (pos + 2)..Len(data) : ~TerminatorAt(data, pos, k)

\* C22: a length n that ansi_seq_len_u16 returns lies inside the buffer, and the n
\* units from pos are a complete sequence of a recognized form; a sequence without a
\* terminator before the end of the buffer is not recognized.
C22_AnsiSeqLen ==
    AnsiDone =>
        /\ ret > 0 => /\ call.pos + ret - 1 <= Len(call.data)
                      /\ IsCompleteSequence(SubSeq(call.data, call.pos, call.pos + ret - 1))
        /\ Unterminated(call.data, call.pos) => ret = 0

\* The length of a DCS sequence with its ST has been returned.
C22_DcsWithTerminator ==
    /\ AnsiDone
    /\ call.pos + 1 <= Len(call.data)
    /\ call.data[call.pos + 1] = 80
    /\ ret = 4

(***************************************************************************)
(* Specification of an AnsiState: parameter lists are applied to it one    *)
(* after the other, and it is serialized and the serialization applied to  *)
(* a new state. loop holds the state.                                      *)
(***************************************************************************)
MaxSgr == 2

\* The codes 0, 4, 39, 49, 31, 97, 44, the unknown code 55, 38;5;1, 48;2;1;2;3, and the
\* truncated 38;5 and 48;2;1.
SgrPieces ==
    {<<0>>, <<4>>, <<39>>, <<49>>, <<31>>, <<97>>, <<44>>, <<55>>, <<38, 5, 1>>,
     <<48, 2, 1, 2, 3>>, <<38, 5>>, <<48, 2, 1>>}

\* The units of a parameter list: the codes in decimal, ';' between them.
SgrParams(pieces) ==
    JoinCodes([k \in 1..Len(Flatten(pieces)) |-> write_u32_u16(Flatten(pieces)[k])])

\* The parameter lists that made the state a call starts from: none, 4;31;44, 4;97,
\* 1;38;5;1;48;2;1;2;3.
SgrStarts ==
    {<<>>, << <<4>>, <<31>>, <<44>> >>, << <<4>>, <<97>> >>,
     << <<1>>, <<38, 5, 1>>, <<48, 2, 1, 2, 3>> >>}

InitSgr ==
    /\ pc = "ready"
    /\ call = [op |-> "new"]
    /\ ret = <<>>
    /\ \E pieces \in SgrStarts :
           loop = IF pieces = <<>> THEN AnsiState_new
                  ELSE apply_sgr_u16(AnsiState_new, SgrParams(pieces))

\* state.apply_sgr_u16(params) on the parameters of an SGR sequence.
ApplySgr ==
    /\ pc = "ready"
    /\ \E pieces \in SeqsUpTo(SgrPieces, MaxSgr) :
           /\ call' = [op |-> "apply_sgr_u16", pieces |-> pieces, before |-> loop]
           /\ loop' = apply_sgr_u16(loop, SgrParams(pieces))
    /\ ret' = <<>>
    /\ pc' = "applied"

\* state.write_restore_u16(out) on an empty out.
WriteRestore ==
    /\ pc \in {"ready", "applied"}
    /\ call' = [op |-> "write_restore_u16"]
    /\ ret' = write_restore_u16(loop)
    /\ pc' = "serialized"
    /\ UNCHANGED loop

\* The serialization is read into a new state, as update_state_from_text reads a text.
ApplyRestore ==
    /\ pc = "serialized"
    /\ call' = [op |-> "update_state_from_text"]
    /\ ret' = [text |-> ret, state |-> update_state_from_text(ret, AnsiState_new)]
    /\ pc' = "restored"
    /\ UNCHANGED loop

NextSgr == ApplySgr \/ WriteRestore \/ ApplyRestore

SpecSgr == InitSgr /\ [][NextSgr]_vars

SgrApplied == pc = "applied" /\ call.op = "apply_sgr_u16"

DefaultState == [attrs |-> 0, fg |-> 0, bg |-> 0]

\* The state after the pieces are applied to state; no piece changes nothing.
AppliedOn(state, pieces) ==
    IF pieces = <<>> THEN state ELSE apply_sgr_u16(state, SgrParams(pieces))

\* 38 or 48 with all the components of its mode, or a single code.
IsCompletePiece(piece) ==
    \/ Len(piece) = 1
    \/ piece[2] = 5 /\ Len(piece) = 3
    \/ piece[2] = 2 /\ Len(piece) = 5

\* The pieces before the k-th are complete, so that the k-th begins with a code.
CodeAt(pieces, k) == \A j \in 1..(k - 1) : IsCompletePiece(pieces[j])

PiecesAfter(pieces, k) == SubSeq(pieces, k + 1, Len(pieces))

\* C23: the code 0 and the empty parameter list leave the default state whatever the
\* state was, and the codes behind a 0 in the list are applied to the default state.
C23_ResetToDefault ==
    SgrApplied =>
        /\ call.pieces = <<>> => loop = DefaultState
        /\ \A k \in 1..Len(call.pieces) :
               (call.pieces[k] = <<0>> /\ CodeAt(call.pieces, k)) =>
                   loop = AppliedOn(DefaultState, PiecesAfter(call.pieces, k))

\* A state with both colours set to which 0;4 was applied: underline alone is left.
C23_ResetThenUnderline ==
    /\ SgrApplied
    /\ call.before.fg # 0
    /\ call.before.bg # 0
    /\ call.pieces = << <<0>>, <<4>> >>
    /\ loop = [attrs |-> ATTR_UNDERLINE, fg |-> 0, bg |-> 0]

LastPiece(pieces) == pieces[Len(pieces)]

FrontPieces(pieces) == SubSeq(pieces, 1, Len(pieces) - 1)

\* C24: the code 39 changes the foreground alone, to unset, and 49 the background
\* alone: the attributes and the other colour stay; a code outside the table (55) leaves
\* the whole state as it is.
C24_ColourResetAlone ==
    (SgrApplied /\ call.pieces # <<>> /\ CodeAt(call.pieces, Len(call.pieces))) =>
        /\ LastPiece(call.pieces) = <<39>> =>
               loop = [AppliedOn(call.before, FrontPieces(call.pieces)) EXCEPT !.fg = 0]
        /\ LastPiece(call.pieces) = <<49>> =>
               loop = [AppliedOn(call.before, FrontPieces(call.pieces)) EXCEPT !.bg = 0]
        /\ LastPiece(call.pieces) = <<55>> =>
               loop = AppliedOn(call.before, FrontPieces(call.pieces))

\* 39 was applied to a state with underline and both colours: underline and the
\* background are left.
C24_ForegroundCleared ==
    /\ SgrApplied
    /\ call.pieces = << <<39>> >>
    /\ call.before.fg # 0
    /\ loop.fg = 0
    /\ loop.bg # 0
    /\ loop.attrs = ATTR_UNDERLINE

\* The state after one complete piece: an indexed or a truecolor colour of the
\* foreground (38) or the background (48), or the code on its own.
PieceEffect(state, piece) ==
    IF Len(piece) = 1 THEN ApplySgrCode(state, piece[1])
    ELSE IF piece[1] = 38
    THEN [state EXCEPT !.fg = IF piece[2] = 5 THEN 256 + piece[3]
                              ELSE 16777216 + piece[3] * 65536 + piece[4] * 256 + piece[5]]
    ELSE [state EXCEPT !.bg = IF piece[2] = 5 THEN 256 + piece[3]
                              ELSE 16777216 + piece[3] * 65536 + piece[4] * 256 + piece[5]]

RECURSIVE PiecesEffect(_, _, _)
PiecesEffect(state, pieces, k) ==
    IF k > Len(pieces) THEN state
    ELSE PiecesEffect(PieceEffect(state, pieces[k]), pieces, k + 1)

\* C25: 38 and 48 take one further parameter behind the mode 5 and three behind the
\* mode 2, so that the parameter behind the colour is a code of its own; a colour whose
\* components the end of the list cuts off changes nothing but that colour.
C25_ExtendedColourParams ==
    (SgrApplied /\ call.pieces # <<>> /\ CodeAt(call.pieces, Len(call.pieces))) =>
        IF IsCompletePiece(LastPiece(call.pieces))
        THEN loop = PiecesEffect(call.before, call.pieces, 1)
        ELSE /\ loop.attrs = PiecesEffect(call.before, FrontPieces(call.pieces), 1).attrs
             /\ LastPiece(call.pieces)[1] = 38 =>
                    loop.bg = PiecesEffect(call.before, FrontPieces(call.pieces), 1).bg
             /\ LastPiece(call.pieces)[1] = 48 =>
                    loop.fg = PiecesEffect(call.before, FrontPieces(call.pieces), 1).fg

\* 38;5;1;4 was applied to the default state: the indexed foreground 1 and underline.
C25_IndexedThenUnderline ==
    /\ SgrApplied
    /\ call.before = DefaultState
    /\ call.pieces = << <<38, 5, 1>>, <<4>> >>
    /\ loop = [attrs |-> ATTR_UNDERLINE, fg |-> 257, bg |-> 0]

\* The number of parameters of the sequence text (0 for no sequence).
NumParams(text) ==
    IF text = <<>> THEN 0 ELSE 1 + Cardinality({k \in 1..Len(text) : text[k] = 59})

\* The number of parameters that the colour needs: none if unset, one for a basic
\* colour, three for an indexed and five for a truecolor one.
ColourParams(color) ==
    IF color = 0 THEN 0 ELSE IF color < 256 THEN 1 ELSE IF color < 16777216 THEN 3 ELSE 5

AttrParams(attrs) ==
    Cardinality({bit \in {ATTR_BOLD, ATTR_DIM, ATTR_ITALIC, ATTR_UNDERLINE, ATTR_BLINK,
                          ATTR_INVERSE, ATTR_HIDDEN, ATTR_STRIKE} : HasBit(attrs, bit)})

\* C26: the serialization of a state that applying SGR sequences has reached, applied
\* to a new state, gives the state again; it is empty exactly if the state is the
\* default one, and has no parameter for an attribute or a colour that is unset.
C26_SerializeRoundTrip ==
    pc = "restored" =>
        /\ ret.state = loop
        /\ ret.text = <<>> <=> loop = DefaultState
        /\ NumParams(ret.text) = AttrParams(loop.attrs) + ColourParams(loop.fg)
                                     + ColourParams(loop.bg)

\* A state with underline, a bright foreground and a truecolor background, restored
\* from its serialization.
C26_RestoredStyledState ==
    /\ pc = "restored"
    /\ loop.attrs = ATTR_UNDERLINE
    /\ loop.fg = 16
    /\ loop.bg >= 16777216
    /\ ret.state = loop


(***************************************************************************)
(* Specification of parse_key followed by matches_key on the key id that   *)
(* parse_key returned for the same input and kitty flag.                   *)
(***************************************************************************)
InitAgree == pc = "ready" /\ call \in ParseKeyCalls /\ ret = FALSE /\ loop = FALSE

\* matches_key(data, s, flag) for the key id s = parse_key(data, flag); loop keeps the
\* result.
MatchesParsed ==
    /\ pc = "done"
    /\ call.op = "parse_key"
    /\ ret # <<>>
    /\ loop' = matches_key(call.data, ret[1], call.kitty_protocol_active)
    /\ pc' = "agreed"
    /\ UNCHANGED <<call, ret>>

NextAgree == ParseKey \/ MatchesParsed

SpecAgree == InitAgree /\ [][NextAgree]_vars

\* C27: parse_key and matches_key agree: if parse_key of an input and a kitty flag is
\* the key id s, then matches_key of the same input, s and the same flag is true.
C27_ParseMatchesAgree == pc = "agreed" => loop = TRUE


(***************************************************************************)
(* The visible content of the lines of wrap_text_with_ansi.                *)
(***************************************************************************)
\* The units of the visible cells of data that are not spaces, in order.
ContentCells(data, tab_width) ==
    LET kept == SelectSeq(VisibleCells(data, tab_width), LAMBDA c : c.units # <<32>>)
    IN  [k \in 1..Len(kept) |-> kept[k].units]

\* The content cells of the lines, read in order.
ContentOfLines(lines, tab_width) ==
    Flatten([k \in 1..Len(lines) |-> ContentCells(lines[k], tab_width)])

\* C28: the visible cells other than spaces of the output lines of wrap_text_with_ansi,
\* read in order, are those of the physical lines of the input: no visible content is
\* dropped, duplicated or reordered.
C28_WrapPreservesContent ==
    WrapDone =>
        ContentOfLines(ret, clamp_tab_width(call.tab_width))
            = ContentOfLines(SplitLines(call.text, 1, 1), clamp_tab_width(call.tab_width))


\* The text is one physical line, and wrap_text_with_ansi returned several lines for it.
SplitPhysicalLine ==
    /\ WrapDone
    /\ \A i \in 1..Len(call.text) : call.text[i] # 10
    /\ Len(ret) > 1

\* C29: when wrap_text_with_ansi splits a physical line into several output lines, each
\* of them has at least one visible cell: none is empty or made of escape sequences only.
C29_SplitLinesHaveCells ==
    SplitPhysicalLine =>
        \A k \in 1..Len(ret) : VisibleCells(ret[k], clamp_tab_width(call.tab_width)) # <<>>


(***************************************************************************)
(* Specification of matches_key on one input with two key ids that differ  *)
(* in the case of their ASCII letters only.                                *)
(***************************************************************************)
UpperStr(s) == [k \in 1..Len(s) |-> ToAsciiUppercase(s[k])]

\* The legacy sequences, the sequences with a modifier field, "a", "A", ctrl+a as the
\* byte 1, and ESC a.
CaseData ==
    {e[1] : e \in LEGACY_SEQUENCES}
    \cup {Wire(form, mods) : form \in WireForms, mods \in 0..MaxModifier}
    \cup {<<97>>, <<65>>, <<1>>, <<27, 97>>}

\* The key id as given, and the same id in upper or in lower case.
CaseCalls ==
    {[op |-> "matches_key", data |-> data, key_id |-> key_id,
      cased |-> IF upper THEN UpperStr(key_id) ELSE LowerStr(key_id),
      kitty_protocol_active |-> kitty]
        : data \in CaseData, key_id \in KeyIds, upper \in BOOLEAN, kitty \in BOOLEAN}

InitCase ==
    /\ pc = "ready"
    /\ call \in {c \in CaseCalls : c.cased # c.key_id}
    /\ ret = FALSE
    /\ loop = FALSE

\* matches_key on the same input with the key id in the other case; loop keeps the
\* first result.
MatchesKeyCased ==
    /\ pc = "matched"
    /\ call.op = "matches_key"
    /\ loop' = ret
    /\ ret' = matches_key(call.data, call.cased, call.kitty_protocol_active)
    /\ pc' = "cased"
    /\ UNCHANGED call

NextCase == MatchesKey \/ MatchesKeyCased

SpecCase == InitCase /\ [][NextCase]_vars

\* C30: matches_key gives the same result for two key ids that differ only in the case
\* of their ASCII letters, for every input and both values of the kitty flag.
C30_KeyIdCaseInsensitive == pc = "cased" => ret = loop

=============================================================================
